---- MODULE Spec2Model ----
(***************************************************************************)
(* Model of the egui table filter: a TableFilter owning an ordered list of *)
(* ColumnFilters over one shared backing data set (src/src/table_filter.rs *)
(* and src/src/column_filters.rs).                                         *)
(*                                                                         *)
(* Strings are sequences of one-character strings, so that starts_with,    *)
(* split, replace and parse are computed character by character.           *)
(***************************************************************************)
EXTENDS Integers, Sequences, FiniteSets, TLC

VARIABLES
    backing_data,     \* TableFilter.backing_data: the rows
    column_filters,   \* TableFilter.column_filters, each with its ColumnFilterState
    panicked,         \* an assertion has failed: the program is gone
    last              \* history: the handler that ran last

vars == <<backing_data, column_filters, panicked, last>>

(***************************************************************************)
(* Bounds of the model.                                                    *)
(***************************************************************************)
MaxRows == 2
MaxCols == 2

(***************************************************************************)
(* String helpers (Rust str methods used by the filters).                  *)
(***************************************************************************)
\* str::starts_with
StartsWith(target, pattern) ==
    /\ Len(pattern) <= Len(target)
    /\ SubSeq(target, 1, Len(pattern)) = pattern

\* str::contains(&str): some window of `s` equals `sub`
StrContains(s, sub) ==
    \E k \in 0..(Len(s) - Len(sub)) : SubSeq(s, k + 1, k + Len(sub)) = sub

\* str::split(",") : the pieces between separators, empty pieces included;
\* the empty string yields one empty piece.
RECURSIVE SplitFrom(_, _, _)
SplitFrom(s, sep, cur) ==
    IF s = <<>> THEN <<cur>>
    ELSE IF Head(s) = sep THEN <<cur>> \o SplitFrom(Tail(s), sep, <<>>)
    ELSE SplitFrom(Tail(s), sep, Append(cur, Head(s)))

Split(s, sep) == SplitFrom(s, sep, <<>>)

\* str::replace(from, "") : every non-overlapping occurrence removed, left to right
RECURSIVE Remove(_, _)
Remove(s, from) ==
    IF s = <<>> THEN <<>>
    ELSE IF StartsWith(s, from) THEN Remove(SubSeq(s, Len(from) + 1, Len(s)), from)
    ELSE <<Head(s)>> \o Remove(Tail(s), from)

Digits == {"0", "1", "2", "3", "4", "5", "6", "7", "8", "9"}

DigitVal(c) ==
    CASE c = "0" -> 0 [] c = "1" -> 1 [] c = "2" -> 2 [] c = "3" -> 3
      [] c = "4" -> 4 [] c = "5" -> 5 [] c = "6" -> 6 [] c = "7" -> 7
      [] c = "8" -> 8 [] c = "9" -> 9

AllDigits(s) == \A k \in 1..Len(s) : s[k] \in Digits

RECURSIVE StripZeros(_)
StripZeros(s) ==
    IF Len(s) > 1 /\ Head(s) = "0" THEN StripZeros(Tail(s)) ELSE s

\* lexicographic <= on digit strings of equal length
RECURSIVE DigitsLeq(_, _)
DigitsLeq(a, b) ==
    IF a = <<>> THEN TRUE
    ELSE IF DigitVal(Head(a)) < DigitVal(Head(b)) THEN TRUE
    ELSE IF DigitVal(Head(a)) > DigitVal(Head(b)) THEN FALSE
    ELSE DigitsLeq(Tail(a), Tail(b))

\* numeric order of two digit strings without leading zeros
NumLeq(a, b) == Len(a) < Len(b) \/ (Len(a) = Len(b) /\ DigitsLeq(a, b))
NumLt(a, b) == NumLeq(a, b) /\ a # b

\* str::parse::<u32>() : an optional "+", then one or more digits, no overflow.
\* The result is [ok, val] with val the digits without leading zeros, so that
\* every u32 is carried exactly.
ParseU32(s) ==
    LET ds == IF s # <<>> /\ Head(s) = "+" THEN Tail(s) ELSE s
        U32MaxDigits == <<"4", "2", "9", "4", "9", "6", "7", "2", "9", "5">>
    IN  IF ds # <<>> /\ AllDigits(ds) /\ NumLeq(StripZeros(ds), U32MaxDigits)
        THEN [ok |-> TRUE, val |-> StripZeros(ds)]
        ELSE [ok |-> FALSE, val |-> <<>>]

\* u32::to_string
RECURSIVE NatToString(_)
NatToString(n) ==
    LET DigitChar(d) ==
            CASE d = 0 -> "0" [] d = 1 -> "1" [] d = 2 -> "2" [] d = 3 -> "3"
              [] d = 4 -> "4" [] d = 5 -> "5" [] d = 6 -> "6" [] d = 7 -> "7"
              [] d = 8 -> "8" [] d = 9 -> "9"
    IN  IF n < 10 THEN <<DigitChar(n)>>
        ELSE Append(NatToString(n \div 10), DigitChar(n % 10))

\* bool::to_string
BoolToString(b) == IF b THEN <<"t", "r", "u", "e">> ELSE <<"f", "a", "l", "s", "e">>

\* i32::to_string
IntToString(i) == IF i < 0 THEN <<"-">> \o NatToString(0 - i) ELSE NatToString(i)

(***************************************************************************)
(* chrono::NaiveDate, as [y, m, d] of the proleptic Gregorian calendar,    *)
(* for the years 0..9999 that %Y renders with four digits.                 *)
(***************************************************************************)
NaiveDate(y, m, d) == [y |-> y, m |-> m, d |-> d]

\* NaiveDate::from_ymd_opt(y, m, d).is_some()
ValidYmd(y, m, d) ==
    LET IsLeap == (y % 4 = 0 /\ y % 100 # 0) \/ y % 400 = 0
        DaysInMonth ==
            IF m = 2 THEN (IF IsLeap THEN 29 ELSE 28)
            ELSE IF m \in {4, 6, 9, 11} THEN 30 ELSE 31
    IN  /\ y \in 0..9999
        /\ m \in 1..12
        /\ d \in 1..DaysInMonth

\* NaiveDate::to_epoch_days: the days since 1970-01-01
to_epoch_days(date) ==
    LET yy == IF date.m <= 2 THEN date.y - 1 + 400 ELSE date.y + 400
        era == yy \div 400
        yoe == yy % 400
        mp == IF date.m > 2 THEN date.m - 3 ELSE date.m + 9
        doy == (153 * mp + 2) \div 5 + date.d - 1
        doe == yoe * 365 + yoe \div 4 - yoe \div 100 + doy
    IN  (era - 1) * 146097 + doe - 719468

\* NaiveDate::from_epoch_days, for the days of the years 0..9999
from_epoch_days(n) ==
    LET z == n + 719468 + 146097
        era == z \div 146097
        doe == z % 146097
        yoe == (doe - doe \div 1460 + doe \div 36524 - doe \div 146096) \div 365
        doy == doe - (365 * yoe + yoe \div 4 - yoe \div 100)
        mp == (5 * doy + 2) \div 153
        d == doy - (153 * mp + 2) \div 5 + 1
        m == IF mp < 10 THEN mp + 3 ELSE mp - 9
        y == yoe + (era - 1) * 400 + (IF m <= 2 THEN 1 ELSE 0)
    IN  NaiveDate(y, m, d)

\* the order of NaiveDate (derived Ord): by year, then month, then day
DateLeq(a, b) ==
    \/ a.y < b.y
    \/ a.y = b.y /\ a.m < b.m
    \/ a.y = b.y /\ a.m = b.m /\ a.d <= b.d

DateLt(a, b) == DateLeq(a, b) /\ a # b

\* NaiveDate::format("%-m/%-d/%Y"), the format naive_date_filters! passes
FormatDate(date) ==
    LET \* %Y of a year in 0..9999: at least four digits, zero padded
        Pad4(y) == [k \in 1..(4 - Len(NatToString(y))) |-> "0"] \o NatToString(y)
    IN  NatToString(date.m) \o <<"/">> \o NatToString(date.d) \o <<"/">> \o Pad4(date.y)

\* the value of a string of at most four digits
RECURSIVE DigitsToNat(_)
DigitsToNat(ds) ==
    IF ds = <<>> THEN 0
    ELSE 10 * DigitsToNat(SubSeq(ds, 1, Len(ds) - 1)) + DigitVal(ds[Len(ds)])

\* NaiveDate::parse_from_str(s, "%-m/%-d/%Y"): one or two digits of month, "/",
\* one or two digits of day, "/", one to four digits of year, nothing after,
\* and the three numbers name a day of the calendar.  [ok, val]
ParseDate(s) ==
    LET ps == Split(s, "/")
        wellformed ==
            /\ Len(ps) = 3
            /\ \A k \in 1..3 : ps[k] # <<>> /\ AllDigits(ps[k])
            /\ Len(ps[1]) <= 2 /\ Len(ps[2]) <= 2 /\ Len(ps[3]) <= 4
    IN  IF wellformed /\ ValidYmd(DigitsToNat(ps[3]), DigitsToNat(ps[1]), DigitsToNat(ps[2]))
        THEN [ok |-> TRUE,
              val |-> NaiveDate(DigitsToNat(ps[3]), DigitsToNat(ps[1]), DigitsToNat(ps[2]))]
        ELSE [ok |-> FALSE, val |-> NaiveDate(0, 0, 0)]

(***************************************************************************)
(* The host's row type T and the data it hands to TableFilter::new.        *)
(* A row is a flight [orig, mileage, label, cancelled]; `label` is the     *)
(* text a host-supplied str_mapper renders for the mileage.                *)
(***************************************************************************)
ABQ == <<"A", "B", "Q">>

Flight(o, m, l, c) == [orig |-> o, mileage |-> m, label |-> l, cancelled |-> c]

Flights == <<
    Flight(<<"D", "A", "L">>, 244, <<"2", "4", "4">>, FALSE),
    Flight(ABQ, 642, <<"0", "6", "4", "2">>, FALSE),
    Flight(ABQ, 642, <<"6", "4", "2">>, FALSE) >>

\* the data sets a TableFilter is constructed over: every run of at most
\* MaxRows consecutive flights
Datasets ==
    {SubSeq(Flights, w[1], w[1] + w[2] - 1) :
        w \in {x \in (1..Len(Flights)) \X (0..MaxRows) : x[1] + x[2] - 1 <= Len(Flights)}}

\* every row a host can hold: a flight with either value of `cancelled`
AllRows ==
    {[Flights[k] EXCEPT !.cancelled = c] : k \in 1..Len(Flights), c \in BOOLEAN}

\* the search texts a user types, per kind of column
SearchTexts(kind) ==
    CASE kind = "Str"  -> {<<"A", "B">>, <<"A", "B", ",", "S", "E">>}
      [] kind = "U32"  -> {<<"6">>, <<">", "5", "0", "0", ",", "<", "1", "0", "0", "0">>}
      [] kind = "Bool" -> {<<"t">>, <<"t", "r", "u", "e">>}
      [] kind = "Date" -> {<<"5", "/", "1">>, <<">", "5", "/", "8", "/", "2", "0", "1", "5">>}

\* everything the model types into a search field, the empty text included
AllSearchTexts == UNION {SearchTexts(kd) : kd \in {"Str", "U32", "Bool"}} \cup {<<>>}

(***************************************************************************)
(* ScalarValue and the column filters.                                     *)
(***************************************************************************)
\* enum ScalarValue { Str(String), U32(u32), I32(i32), Bool(bool) }
ScalarValue(tag, val) == [tag |-> tag, val |-> val]

\* impl Display for ScalarValue
ScalarToString(v) ==
    CASE v.tag = "Str"  -> v.val
      [] v.tag = "U32"  -> NatToString(v.val)
      [] v.tag = "I32"  -> IntToString(v.val)
      [] v.tag = "Bool" -> BoolToString(v.val)

\* the upper-case letters in the order of their bytes
Letters == <<"A", "B", "C", "D", "E", "F", "G", "H", "I", "J", "K", "L", "M",
             "N", "O", "P", "Q", "R", "S", "T", "U", "V", "W", "X", "Y", "Z">>

CharCode(c) == CHOOSE k \in 1..Len(Letters) : Letters[k] = c

\* Ord of String: byte by byte, a proper prefix first
RECURSIVE StrLeq(_, _)
StrLeq(a, b) ==
    IF a = <<>> THEN TRUE
    ELSE IF b = <<>> THEN FALSE
    ELSE IF CharCode(Head(a)) < CharCode(Head(b)) THEN TRUE
    ELSE IF CharCode(Head(a)) > CharCode(Head(b)) THEN FALSE
    ELSE StrLeq(Tail(a), Tail(b))

\* #[derive(PartialOrd, Ord)] of ScalarValue: a <= b
ScalarLeq(a, b) ==
    LET \* the position of a variant in the enum, which the derived Ord
        \* compares first
        VariantIndex(tag) ==
            CASE tag = "Str" -> 0 [] tag = "U32" -> 1 [] tag = "I32" -> 2 [] tag = "Bool" -> 3
    IN  IF a.tag # b.tag THEN VariantIndex(a.tag) < VariantIndex(b.tag)
        ELSE CASE a.tag = "Str"  -> StrLeq(a.val, b.val)
               [] a.tag = "Bool" -> (a.val => b.val)
               [] OTHER -> a.val <= b.val

\* StringColumnFilter::new, U32ColumnFilter::new, BoolColumnFilter::new with
\* ColumnFilterState::new: empty unselected_values and search_field
NewColumnFilter(id, kind, mapper, str_mapper) ==
    [id |-> id, kind |-> kind, mapper |-> mapper, str_mapper |-> str_mapper,
     unselected_values |-> {}, search_field |-> <<>>]

\* the column filters the host registers (the arguments of string_filters!,
\* u32_filters! with a str_mapper, and bool_filters!)
ColumnSpecs == {
    NewColumnFilter("orig", "Str", "orig", "to_string"),
    NewColumnFilter("mileage", "U32", "mileage", "label"),
    NewColumnFilter("cancelled", "Bool", "cancelled", "to_string") }

\* ColumnFilter::get_value of each kind; the date filter's is
\* ScalarValue::I32((self.mapper)(t).to_epoch_days())
get_value(cf, t) ==
    IF cf.kind = "Date" THEN ScalarValue("I32", to_epoch_days(t[cf.mapper]))
    ELSE ScalarValue(cf.kind, t[cf.mapper])

\* ColumnFilter::get_string_value: the default renders the ScalarValue, the
\* U32 and Bool filters call their str_mapper
get_string_value(cf, t) ==
    IF cf.kind = "Date" THEN FormatDate(from_epoch_days(get_value(cf, t).val))
    ELSE IF cf.str_mapper = "to_string" THEN ScalarToString(get_value(cf, t))
    ELSE t[cf.str_mapper]

(***************************************************************************)
(* search_pattern of each kind.  Every call site passes the search text    *)
(* first and the row's display string second.                              *)
(***************************************************************************)
\* Regex ^<[0-9]+$, ^<=[0-9]+$, ^>[0-9]+$, ^>=[0-9]+$ : is_match
RegexOpDigits(op, s) ==
    /\ StartsWith(s, op)
    /\ Len(s) > Len(op)
    /\ AllDigits(SubSeq(s, Len(op) + 1, Len(s)))

LE == <<"<", "=">>
GE == <<">", "=">>
LT == <<"<">>
GT == <<">">>

\* one comma-separated piece of a U32ColumnFilter pattern
U32SubPattern(pattern, target) ==
    LET x == ParseU32(target)
    IN  IF StrContains(pattern, LE) /\ RegexOpDigits(LE, pattern)
        THEN LET y == ParseU32(Remove(pattern, LE))
             IN  IF x.ok /\ y.ok THEN NumLeq(x.val, y.val) ELSE FALSE
        ELSE IF StrContains(pattern, GE) /\ RegexOpDigits(GE, pattern)
        THEN LET y == ParseU32(Remove(pattern, GE))
             IN  IF x.ok /\ y.ok THEN NumLeq(y.val, x.val) ELSE FALSE
        ELSE IF StrContains(pattern, LT) /\ RegexOpDigits(LT, pattern)
        THEN LET y == ParseU32(Remove(pattern, LT))
             IN  IF x.ok /\ y.ok THEN NumLt(x.val, y.val) ELSE FALSE
        ELSE IF StrContains(pattern, GT) /\ RegexOpDigits(GT, pattern)
        THEN LET y == ParseU32(Remove(pattern, GT))
             IN  IF x.ok /\ y.ok THEN NumLt(y.val, x.val) ELSE FALSE
        ELSE StartsWith(target, pattern)

\* mutant of U32SearchPattern: Iterator::any instead of Iterator::all
U32SearchPattern_any(pattern, target) ==
    LET subs == Split(pattern, ",")
    IN  \E k \in 1..Len(subs) : U32SubPattern(subs[k], target)

\* U32ColumnFilter::search_pattern(pattern, target)
U32SearchPattern(pattern, target) ==
    LET subs == Split(pattern, ",")
    IN  \A k \in 1..Len(subs) : U32SubPattern(subs[k], target)

\* mutant of StringSearchPattern: the empty pieces of the split are skipped
StringSearchPattern_skip_empty(pattern, target) ==
    LET subs == Split(pattern, ",")
    IN  \E k \in 1..Len(subs) : subs[k] # <<>> /\ StartsWith(target, subs[k])

\* mutant of StringSearchPattern: Iterator::all instead of Iterator::any
StringSearchPattern_all(pattern, target) ==
    LET subs == Split(pattern, ",")
    IN  \A k \in 1..Len(subs) : StartsWith(target, subs[k])

\* StringColumnFilter::search_pattern(pattern, target)
StringSearchPattern(pattern, target) ==
    LET subs == Split(pattern, ",")
    IN  \E k \in 1..Len(subs) : StartsWith(target, subs[k])

\* I32ColumnFilter::search_pattern(pattern, target): the text of the u32
\* filter's, `Result<u32, _>` of both parses included
I32SearchPattern(pattern, target) ==
    LET subs == Split(pattern, ",")
    IN  \A k \in 1..Len(subs) : U32SubPattern(subs[k], target)

\* one comma-separated piece of a NaiveDateColumnFilter pattern: the operator
\* is looked for anywhere in the piece, and no regex guards the operand
DateSubPattern(pattern, target) ==
    LET x == ParseDate(target)
    IN  IF StrContains(pattern, LE)
        THEN LET y == ParseDate(Remove(pattern, LE))
             IN  IF x.ok /\ y.ok THEN DateLeq(x.val, y.val) ELSE FALSE
        ELSE IF StrContains(pattern, GE)
        THEN LET y == ParseDate(Remove(pattern, GE))
             IN  IF x.ok /\ y.ok THEN DateLeq(y.val, x.val) ELSE FALSE
        ELSE IF StrContains(pattern, LT)
        THEN LET y == ParseDate(Remove(pattern, LT))
             IN  IF x.ok /\ y.ok THEN DateLt(x.val, y.val) ELSE FALSE
        ELSE IF StrContains(pattern, GT)
        THEN LET y == ParseDate(Remove(pattern, GT))
             IN  IF x.ok /\ y.ok THEN DateLt(y.val, x.val) ELSE FALSE
        ELSE StartsWith(target, pattern)

\* NaiveDateColumnFilter::search_pattern(pattern, target)
DateSearchPattern(pattern, target) ==
    LET subs == Split(pattern, ",")
    IN  \A k \in 1..Len(subs) : DateSubPattern(subs[k], target)

\* the trait's default ColumnFilter::search_pattern(target, pattern), which the
\* Bool filter inherits: its first parameter is the one that must start with
\* the second
DefaultSearchPattern(target, pattern) == StartsWith(target, pattern)

\* dynamic dispatch of self.search_pattern(a, b)
search_pattern(cf, a, b) ==
    CASE cf.kind = "Str"  -> StringSearchPattern(a, b)
      [] cf.kind = "U32"  -> U32SearchPattern(a, b)
      [] cf.kind = "I32"  -> I32SearchPattern(a, b)
      [] cf.kind = "Date" -> DateSearchPattern(a, b)
      [] cf.kind = "Bool" -> DefaultSearchPattern(a, b)

(***************************************************************************)
(* The ColumnFilter trait's default methods.                               *)
(***************************************************************************)
\* ColumnFilter::contains
contains(cf, value) == value \notin cf.unselected_values

\* mutant of evaluate: the pending search text hides rows before APPLY
evaluate_with_search(cf, t) ==
    /\ get_value(cf, t) \notin cf.unselected_values
    /\ (cf.search_field = <<>>
          \/ search_pattern(cf, cf.search_field, get_string_value(cf, t)))

\* ColumnFilter::evaluate
evaluate(cf, t) == get_value(cf, t) \notin cf.unselected_values

\* ColumnFilter::is_active
is_active(cf) == cf.unselected_values # {}

\* mutant of reset: the exclusion set is cleared, the search text is kept
reset_keeps_search(cf) == [cf EXCEPT !.unselected_values = {}]

\* ColumnFilter::reset
reset(cf) == [cf EXCEPT !.search_field = <<>>, !.unselected_values = {}]

\* ColumnFilter::get_eval_bool_array
get_eval_bool_array(cf, data) == [k \in 1..Len(data) |-> evaluate(cf, data[k])]

\* mutant of selectable_value_bool_array: the column's own filter is conjoined too
selectable_value_bool_array_with_self(cfs, data, self) ==
    LET evals == [j \in 1..Len(cfs) |-> get_eval_bool_array(cfs[j], data)]
    IN  IF evals = <<>> \/ \E j \in 1..Len(evals) : Len(evals[j]) # Len(evals[1])
        THEN [ok |-> FALSE, val |-> <<>>]
        ELSE [ok |-> TRUE,
              val |-> [k \in 1..Len(evals[1]) |-> \A j \in 1..Len(evals) : evals[j][k]]]

\* ColumnFilter::selectable_value_bool_array of the filter at position `self`:
\* [ok, val], ok = FALSE when one of its assertions fails
selectable_value_bool_array(cfs, data, self) ==
    LET others == SelectSeq(cfs, LAMBDA cf : cf.id # cfs[self].id)
        evals == [j \in 1..Len(others) |-> get_eval_bool_array(others[j], data)]
    IN  IF evals = <<>> \/ \E j \in 1..Len(evals) : Len(evals[j]) # Len(evals[1])
        THEN [ok |-> FALSE, val |-> <<>>]
        ELSE [ok |-> TRUE,
              val |-> [k \in 1..Len(evals[1]) |-> \A j \in 1..Len(evals) : evals[j][k]]]

\* the HashSet visible_unique that bind collects from the zipped rows and flags
visible_unique(cf, data, filter_array) ==
    {get_value(cf, data[k]) : k \in {i \in 1..Len(data) : filter_array[i]}}

\* Itertools::unique_by(|d| self.get_value(d)): the first row of every value
RECURSIVE unique_by(_, _, _)
unique_by(cf, rows, seen) ==
    IF rows = <<>> THEN <<>>
    ELSE IF get_value(cf, Head(rows)) \in seen THEN unique_by(cf, Tail(rows), seen)
    ELSE <<Head(rows)>> \o unique_by(cf, Tail(rows), seen \cup {get_value(cf, Head(rows))})

\* Itertools::sorted_by_key(|d| self.get_value(d)): a stable sort, each row
\* inserted after the rows whose key is not greater
RECURSIVE sorted_by_key(_, _)
sorted_by_key(cf, rows) ==
    IF rows = <<>> THEN <<>>
    ELSE LET rest == sorted_by_key(cf, SubSeq(rows, 1, Len(rows) - 1))
             d == rows[Len(rows)]
             before == SelectSeq(rest, LAMBDA r : ScalarLeq(get_value(cf, r), get_value(cf, d)))
             after == SelectSeq(rest, LAMBDA r : ~ScalarLeq(get_value(cf, r), get_value(cf, d)))
         IN  before \o <<d>> \o after

\* mutant of menu_rows: the entries are left in the order of the rows
menu_rows_unsorted(cf, data) ==
    unique_by(cf,
              SelectSeq(data, LAMBDA d : cf.search_field = <<>>
                                         \/ search_pattern(cf, cf.search_field, get_string_value(cf, d))),
              {})

\* the rows bind lists as checkboxes: filtered by the search text, then
\* unique_by, then sorted_by_key
menu_rows(cf, data) ==
    sorted_by_key(cf,
        unique_by(cf,
                  SelectSeq(data, LAMBDA d : cf.search_field = <<>>
                                             \/ search_pattern(cf, cf.search_field, get_string_value(cf, d))),
                  {}))

\* mutant of checked: the flag shows only whether the row matches the search
\* text
checked_by_search_only(cf, d) ==
    cf.search_field = <<>> \/ search_pattern(cf, cf.search_field, get_string_value(cf, d))

\* the `checked` flag bind computes for the entry of row d
checked(cf, d) ==
    /\ get_value(cf, d) \notin cf.unselected_values
    /\ (cf.search_field = <<>> \/ search_pattern(cf, cf.search_field, get_string_value(cf, d)))

\* mutant of click_checkbox: a click always excludes, it never re-includes
click_checkbox_insert_only(cf, d) ==
    [cf EXCEPT !.unselected_values = @ \cup {get_value(cf, d)}]

\* the click handler of the checkbox of row d: egui has flipped `checked`
click_checkbox(cf, d) ==
    LET v == get_value(cf, d)
        now_checked == ~checked(cf, d)
    IN  IF now_checked
        THEN [cf EXCEPT !.unselected_values = @ \ {v}]
        ELSE [cf EXCEPT !.unselected_values = @ \cup {v}]

\* the APPLY button's for_each over the unique rows
RECURSIVE apply_each(_, _)
apply_each(cf, rows) ==
    IF rows = <<>> THEN cf
    ELSE LET d == Head(rows)
             v == get_value(cf, d)
         IN  apply_each(
                 IF search_pattern(cf, cf.search_field, get_string_value(cf, d))
                 THEN [cf EXCEPT !.unselected_values = @ \ {v}]
                 ELSE [cf EXCEPT !.unselected_values = @ \cup {v}],
                 Tail(rows))

\* mutant of click_apply: APPLY narrows, it excludes the values whose search
\* does not match and re-includes none
click_apply_narrowing(cf, data) ==
    IF cf.search_field # <<>>
    THEN [cf EXCEPT !.unselected_values =
             @ \cup apply_each([cf EXCEPT !.unselected_values = {}],
                               unique_by(cf, data, {})).unselected_values]
    ELSE cf

\* mutant of click_apply: the empty search text is applied like any other
click_apply_unguarded(cf, data) == apply_each(cf, unique_by(cf, data, {}))

click_apply(cf, data) ==
    IF cf.search_field # <<>> THEN apply_each(cf, unique_by(cf, data, {})) ELSE cf

\* the NONE button's for_each
RECURSIVE none_each(_, _)
none_each(cf, rows) ==
    IF rows = <<>> THEN cf
    ELSE none_each([cf EXCEPT !.unselected_values = @ \cup {get_value(cf, Head(rows))}],
                   Tail(rows))

\* mutant of click_none: NONE excludes only the values the menu lists under
\* the search text
click_none_listed(cf, data) == none_each(cf, menu_rows(cf, data))

\* mutant of click_none: NONE excludes every value a row may bear, borne by a
\* row of the data or not
click_none_of_domain(cf, data) ==
    [cf EXCEPT !.unselected_values = @ \cup {get_value(cf, t) : t \in AllRows}]

click_none(cf, data) == none_each(cf, unique_by(cf, data, {}))

\* the ALL button's for_each
RECURSIVE all_each(_, _)
all_each(cf, rows) ==
    IF rows = <<>> THEN cf
    ELSE all_each([cf EXCEPT !.unselected_values = @ \ {get_value(cf, Head(rows))}],
                  Tail(rows))

click_all(cf, data) == all_each(cf, unique_by(cf, data, {}))

(***************************************************************************)
(* TableFilter.                                                            *)
(***************************************************************************)
\* mutant of TableFilter_evaluate: Iterator::any instead of Iterator::all
TableFilter_evaluate_any(cfs, item) == \E k \in 1..Len(cfs) : evaluate(cfs[k], item)

\* TableFilter::evaluate: Iterator::all, which stops at the first false
RECURSIVE TableFilter_evaluate(_, _)
TableFilter_evaluate(cfs, item) ==
    IF cfs = <<>> THEN TRUE
    ELSE IF ~evaluate(Head(cfs), item) THEN FALSE
    ELSE TableFilter_evaluate(Tail(cfs), item)

\* TableFilter::reset
TableFilter_reset(cfs) == [k \in 1..Len(cfs) |-> reset(cfs[k])]

\* mutant of click_reset: RESET clears only the column whose menu is open
click_reset_own_column(cfs, self) == [cfs EXCEPT ![self] = reset(@)]

\* the RESET button of the menu of column `self`: table_filter.reset()
click_reset(cfs, self) == TableFilter_reset(cfs)

\* TableFilter::is_active_for_id: filter by id, then Iterator::any
is_active_for_id(cfs, id) ==
    LET with_id == SelectSeq(cfs, LAMBDA cf : cf.id = id)
    IN  \E k \in 1..Len(with_id) : is_active(with_id[k])

(***************************************************************************)
(* The state machine: the host constructs the TableFilter, registers       *)
(* column filters, and each frame calls bind for a column whose popup is   *)
(* open with at most one input event.                                      *)
(***************************************************************************)
\* what `last` records: the handler and the position of the column it ran for
\* (0 when it is not a column's handler)
Ran(op, self) == [op |-> op, self |-> self]

\* TableFilter::new(backing_data): no column filter yet
Init ==
    /\ backing_data \in Datasets
    /\ column_filters = <<>>
    /\ panicked = FALSE
    /\ last = Ran("new", 0)

\* TableFilter::column_filter(cf), while the table has fewer than `limit` columns
column_filter(cf, limit) ==
    /\ ~panicked
    /\ last' = Ran("column_filter", 0)
    /\ Len(column_filters) < limit
    /\ column_filters' = Append(column_filters, cf)
    /\ UNCHANGED <<backing_data, panicked>>

\* the host calls TableFilter::reset
Reset ==
    /\ ~panicked
    /\ last' = Ran("Reset", 0)
    /\ column_filters' = TableFilter_reset(column_filters)
    /\ UNCHANGED <<backing_data, panicked>>

\* the host edits a field of a row between two frames (the CANCELLED checkbox
\* of the table body)
HostMutate(i) ==
    /\ ~panicked
    /\ last' = Ran("HostMutate", 0)
    /\ i \in 1..Len(backing_data)
    /\ backing_data' = [backing_data EXCEPT ![i].cancelled = ~@]
    /\ UNCHANGED <<column_filters, panicked>>

\* does the popup body of column `self` get past selectable_value_bool_array
BindOk(self) == selectable_value_bool_array(column_filters, backing_data, self).ok

\* bind with the popup open and no input: draws the menu, or panics
Bind(self) ==
    /\ ~panicked
    /\ last' = Ran("Bind", self)
    /\ self \in 1..Len(column_filters)
    /\ panicked' = ~BindOk(self)
    /\ UNCHANGED <<backing_data, column_filters>>

\* bind, the user has typed `s` in the search field
BindSearch(self, s) ==
    /\ ~panicked
    /\ last' = Ran("BindSearch", self)
    /\ self \in 1..Len(column_filters)
    /\ s \in SearchTexts(column_filters[self].kind) \cup {<<>>}
    /\ column_filters' = [column_filters EXCEPT ![self].search_field = s]
    /\ panicked' = ~BindOk(self)
    /\ UNCHANGED backing_data

\* mutant of BindCheckbox: the checkbox of a value that visible_unique does
\* not hold (the weak label) ignores the click
BindCheckbox_ignores_weak(self, k) ==
    /\ ~panicked
    /\ last' = Ran("BindCheckbox", self)
    /\ self \in 1..Len(column_filters)
    /\ BindOk(self)
    /\ LET rows == menu_rows(column_filters[self], backing_data)
           filter_array == selectable_value_bool_array(column_filters, backing_data, self).val
       IN  /\ k \in 1..Len(rows)
           /\ column_filters' =
                  IF get_value(column_filters[self], rows[k])
                         \in visible_unique(column_filters[self], backing_data, filter_array)
                  THEN [column_filters EXCEPT ![self] = click_checkbox(@, rows[k])]
                  ELSE column_filters
    /\ UNCHANGED <<backing_data, panicked>>

\* bind, the user has clicked the checkbox of the k-th listed row
BindCheckbox(self, k) ==
    /\ ~panicked
    /\ last' = Ran("BindCheckbox", self)
    /\ self \in 1..Len(column_filters)
    /\ BindOk(self)
    /\ LET rows == menu_rows(column_filters[self], backing_data)
       IN  /\ k \in 1..Len(rows)
           /\ column_filters' =
                  [column_filters EXCEPT ![self] = click_checkbox(@, rows[k])]
    /\ UNCHANGED <<backing_data, panicked>>

\* bind, the user has clicked APPLY
BindApply(self) ==
    /\ ~panicked
    /\ last' = Ran("BindApply", self)
    /\ self \in 1..Len(column_filters)
    /\ BindOk(self)
    /\ column_filters' = [column_filters EXCEPT ![self] = click_apply(@, backing_data)]
    /\ UNCHANGED <<backing_data, panicked>>

\* bind, the user has clicked NONE
BindNone(self) ==
    /\ ~panicked
    /\ last' = Ran("BindNone", self)
    /\ self \in 1..Len(column_filters)
    /\ BindOk(self)
    /\ column_filters' = [column_filters EXCEPT ![self] = click_none(@, backing_data)]
    /\ UNCHANGED <<backing_data, panicked>>

\* bind, the user has clicked ALL
BindAll(self) ==
    /\ ~panicked
    /\ last' = Ran("BindAll", self)
    /\ self \in 1..Len(column_filters)
    /\ BindOk(self)
    /\ column_filters' = [column_filters EXCEPT ![self] = click_all(@, backing_data)]
    /\ UNCHANGED <<backing_data, panicked>>

\* bind, the user has clicked RESET: self.column_filter_state().table_filter.reset()
BindReset(self) ==
    /\ ~panicked
    /\ last' = Ran("BindReset", self)
    /\ self \in 1..Len(column_filters)
    /\ BindOk(self)
    /\ column_filters' = click_reset(column_filters, self)
    /\ UNCHANGED <<backing_data, panicked>>

\* registration, reset and the clicks that need no search text, in a table of
\* at most `limit` columns
Clicks(limit) ==
    \/ \E cf \in ColumnSpecs : column_filter(cf, limit)
    \/ Reset
    \/ \E self \in 1..limit : Bind(self)
    \/ \E self \in 1..limit, k \in 1..MaxRows : BindCheckbox(self, k)
    \/ \E self \in 1..limit : BindNone(self)
    \/ \E self \in 1..limit : BindAll(self)
    \/ \E self \in 1..limit : BindReset(self)

\* one step of a table of at most `limit` columns
Step(limit) ==
    \/ Clicks(limit)
    \/ \E i \in 1..MaxRows : HostMutate(i)
    \/ \E self \in 1..limit, s \in AllSearchTexts : BindSearch(self, s)
    \/ \E self \in 1..limit : BindApply(self)

Next == Step(MaxCols)

Spec == Init /\ [][Next]_vars

\* The same program under a host that never changes a field of a row: the
\* data set is the one TableFilter::new was given, for the whole run.
NextFixed ==
    \/ Clicks(MaxCols)
    \/ \E self \in 1..MaxCols, s \in AllSearchTexts : BindSearch(self, s)
    \/ \E self \in 1..MaxCols : BindApply(self)

SpecFixed == Init /\ [][NextFixed]_vars

\* The same program with room for one more column, over a one-row data set the
\* host leaves alone and with a user who only clicks: the smallest tables in
\* which two columns share an id and a third does not.
InitWide ==
    /\ backing_data = <<Flights[1]>>
    /\ column_filters = <<>>
    /\ panicked = FALSE
    /\ last = Ran("new", 0)

\* the ids a host passes to the lookups: those of ColumnSpecs and one that no
\* column is registered under
LookupIds == {cf.id : cf \in ColumnSpecs} \cup {"gate"}

\* the host calls TableFilter::is_active_for_id(id): filter, any; it returns
HostIsActiveForId(id) ==
    /\ ~panicked
    /\ last' = [op |-> "is_active_for_id", self |-> 0, id |-> id,
                result |-> is_active_for_id(column_filters, id)]
    /\ UNCHANGED <<backing_data, column_filters, panicked>>

\* the position of the first column registered under id, 0 when there is none
\* (Iterator::find)
FindById(cfs, id) ==
    IF \E k \in 1..Len(cfs) : cfs[k].id = id
    THEN CHOOSE k \in 1..Len(cfs) : cfs[k].id = id /\ \A j \in 1..(k - 1) : cfs[j].id # id
    ELSE 0

\* the host calls TableFilter::bind_for_id(id, response) with the popup open:
\* find, then map to cf.bind(response); nothing is done when find gives None
HostBindForId(id) ==
    /\ ~panicked
    /\ last' = [op |-> "bind_for_id", self |-> FindById(column_filters, id), id |-> id]
    /\ panicked' = IF FindById(column_filters, id) = 0 THEN FALSE
                   ELSE ~BindOk(FindById(column_filters, id))
    /\ UNCHANGED <<backing_data, column_filters>>

NextWide ==
    \/ Clicks(MaxCols + 1)
    \/ \E id \in LookupIds : HostIsActiveForId(id)
    \/ \E id \in LookupIds : HostBindForId(id)

SpecWide == InitWide /\ [][NextWide]_vars

(***************************************************************************)
(* search_pattern called on its own.  The user composes a search text from *)
(* comma-separated terms; search_pattern of a column of the given kind is  *)
(* called once with that text and the display string of a value, and       *)
(* `last` records the call with its result.                                *)
(***************************************************************************)
MaxTerms == 2

\* the text a user types for a sequence of terms: the terms joined by ","
RECURSIVE Join(_)
Join(pieces) ==
    IF Len(pieces) = 0 THEN <<>>
    ELSE IF Len(pieces) = 1 THEN pieces[1]
    ELSE pieces[1] \o <<",">> \o Join(Tail(pieces))

\* the non-empty sequences of at most MaxTerms elements of S
TermSeqs(S) == UNION {[1..n -> S] : n \in 1..MaxTerms}

\* what `last` records of a call: the kind of the column, the terms the text
\* was composed of, the value displayed, the two strings passed and the result
Matched(kind, terms, value, pattern, target, result) ==
    [op |-> "search_pattern", self |-> 0, kind |-> kind, terms |-> terms,
     value |-> value, pattern |-> pattern, target |-> target, result |-> result]

InitMatch ==
    /\ backing_data = <<>>
    /\ column_filters = <<>>
    /\ panicked = FALSE
    /\ last = Ran("new", 0)

\* a run is one call: construction, then search_pattern once
NotCalled == last = Ran("new", 0)

\* the prefixes a user types in the menu of a text column, and its values

\* StringColumnFilter::search_pattern(search text, display string)
MatchStr(pieces, target) ==
    /\ NotCalled
    /\ last' = Matched("Str", pieces, target, Join(pieces), target,
                       StringSearchPattern(Join(pieces), target))
    /\ UNCHANGED <<backing_data, column_filters, panicked>>

\* the comparison operators of the integer and date grammars ("" : a prefix)
Ops == {<<>>, LT, LE, GT, GE}

\* a term of an operator grammar: an operator and its operand
Term(op, n) == [op |-> op, n |-> n]

\* the operands a user types for a u32 column, and the values of the column
U32Operands == {0, 6, 500, 642, 1000}
U32Values == {0, 6, 244, 500, 642, 1000, 1100}

\* U32ColumnFilter::search_pattern(search text, display string of v)
MatchU32(terms, v) ==
    LET \* the text of the terms of the pattern
        pattern == Join([k \in 1..Len(terms) |-> terms[k].op \o NatToString(terms[k].n)])
    IN  /\ NotCalled
        /\ last' = Matched("U32", terms, v, pattern, NatToString(v), U32SearchPattern(pattern, NatToString(v)))
        /\ UNCHANGED <<backing_data, column_filters, panicked>>

\* the operands a user types for an i32 column, and the values of the column
I32Operands == {-3, 0, 5}
I32Values == {-5, -3, 0, 3, 7}

\* I32ColumnFilter::search_pattern(search text, display string of v)
MatchI32(terms, v) ==
    LET \* the text of the terms of the pattern
        pattern == Join([k \in 1..Len(terms) |-> terms[k].op \o IntToString(terms[k].n)])
    IN  /\ NotCalled
        /\ last' = Matched("I32", terms, v, pattern, IntToString(v), I32SearchPattern(pattern, IntToString(v)))
        /\ UNCHANGED <<backing_data, column_filters, panicked>>

\* the departure dates of the flights, as operands and as values
Dates == {NaiveDate(2014, 12, 31), NaiveDate(2015, 5, 8), NaiveDate(2015, 5, 9),
          NaiveDate(2015, 5, 11)}

\* NaiveDateColumnFilter::search_pattern(search text, display string of v)
MatchDate(terms, v) ==
    LET \* the text of the terms of the pattern
        pattern == Join([k \in 1..Len(terms) |-> terms[k].op \o FormatDate(terms[k].n)])
    IN  /\ NotCalled
        /\ last' = Matched("Date", terms, v, pattern, FormatDate(v), DateSearchPattern(pattern, FormatDate(v)))
        /\ UNCHANGED <<backing_data, column_filters, panicked>>

\* the default search_pattern, inherited by BoolColumnFilter, as bind calls it:
\* self.search_pattern(&search_field, &self.get_string_value(d))
MatchBool(piece, b) ==
    /\ NotCalled
    /\ last' = Matched("Bool", <<piece>>, b, piece, BoolToString(b),
                       DefaultSearchPattern(piece, BoolToString(b)))
    /\ UNCHANGED <<backing_data, column_filters, panicked>>

\* the range operator of the spec's grammar, which the user may type as well
RANGE == <<">", "<">>

\* search_pattern and the display string of the operator grammars, by kind
OperatorSearchPattern(kind, pattern, target) ==
    CASE kind = "U32"  -> U32SearchPattern(pattern, target)
      [] kind = "I32"  -> I32SearchPattern(pattern, target)
      [] kind = "Date" -> DateSearchPattern(pattern, target)

Show(kind, v) ==
    CASE kind = "U32"  -> NatToString(v)
      [] kind = "I32"  -> IntToString(v)
      [] kind = "Date" -> FormatDate(v)

\* search_pattern of an integer or date column called with the text "a><b"
MatchRange(kind, a, b, v) ==
    /\ NotCalled
    /\ last' = Matched(kind, <<[op |-> RANGE, n |-> a, hi |-> b]>>, v,
                       Show(kind, a) \o RANGE \o Show(kind, b), Show(kind, v),
                       OperatorSearchPattern(kind, Show(kind, a) \o RANGE \o Show(kind, b),
                                             Show(kind, v)))
    /\ UNCHANGED <<backing_data, column_filters, panicked>>

\* texts a user may type that are not well-formed terms: an operator with no
\* operand, with letters, with a number beyond u32::MAX, or with a day that is
\* not in the calendar
RawPatterns(kind) ==
    IF kind = "Date"
    THEN {<<"<">>, <<"<", "a", "b", "c">>, <<"<", "1", "3", "/", "1", "/", "2", "0", "1", "5">>,
          <<"<", "=", "2", "/", "3", "0", "/", "2", "0", "1", "5">>,
          <<">", "5", "/", "8", "/", "2", "0", "1", "5">>,
          <<">", "5", "/", "8", "/", "2", "0", "1", "5", ",", "<", "a", "b", "c">>}
    ELSE {<<"<">>, <<"<", "a", "b", "c">>, <<"<", "5">>,
          <<"<", "=", "4", "2", "9", "4", "9", "6", "7", "2", "9", "6">>, <<"<", "4", "2", "9", "4", "9", "6", "7", "2", "9", "5">>,
          <<">", "=", "5", ",", "<", "a", "b", "c">>}

\* display strings a str_mapper may render, numbers and dates or not
RawTargets(kind) ==
    IF kind = "Date"
    THEN {<<"5", "/", "9", "/", "2", "0", "1", "5">>, <<"2", "/", "3", "0", "/", "2", "0", "1", "5">>,
          <<"P", "A", "R", "S", "E", " ", "E", "R", "R">>, <<"<", "a", "b", "c", "d">>}
    ELSE {<<"3">>, <<"6", "4", "2">>, <<>>, <<"a", "b", "c">>, <<"<", "a", "b", "c", "d">>,
          <<"4", "2", "9", "4", "9", "6", "7", "2", "9", "6">>}

\* search_pattern of an integer or date column called with such a text
MatchRaw(kind, pattern, target) ==
    /\ NotCalled
    /\ last' = Matched(kind, <<>>, target, pattern, target,
                       OperatorSearchPattern(kind, pattern, target))
    /\ UNCHANGED <<backing_data, column_filters, panicked>>

(***************************************************************************)
(* The mileage matcher of the demo host (main.rs): the third closure given *)
(* to ColumnFilterImpl::new for the mileage column.                        *)
(***************************************************************************)
\* str::split(sep) for a separator of several characters
RECURSIVE SplitOn(_, _, _)
SplitOn(s, sep, cur) ==
    IF s = <<>> THEN <<cur>>
    ELSE IF StartsWith(s, sep)
    THEN <<cur>> \o SplitOn(SubSeq(s, Len(sep) + 1, Len(s)), sep, <<>>)
    ELSE SplitOn(Tail(s), sep, Append(cur, Head(s)))

\* str::parse::<usize>(), as ParseU32
ParseUsize(s) ==
    LET ds == IF s # <<>> /\ Head(s) = "+" THEN Tail(s) ELSE s
        \* usize::MAX of a 64-bit build
        UsizeMaxDigits == <<"1", "8", "4", "4", "6", "7", "4", "4", "0", "7",
                            "3", "7", "0", "9", "5", "5", "1", "6", "1", "5">>
    IN  IF ds # <<>> /\ AllDigits(ds) /\ NumLeq(StripZeros(ds), UsizeMaxDigits)
        THEN [ok |-> TRUE, val |-> StripZeros(ds)]
        ELSE [ok |-> FALSE, val |-> <<>>]

\* Regex::new("[0-9]+><[0-9]+").is_match(pattern): not anchored
DemoRangeRegex(pattern) ==
    \E k \in 1..(Len(pattern) - 3) :
        /\ pattern[k] \in Digits
        /\ SubSeq(pattern, k + 1, k + 2) = RANGE
        /\ pattern[k + 3] \in Digits

\* Regex::new("<[0-9]+") and Regex::new(">[0-9]+") .is_match(pattern): not
\* anchored
DemoOpRegex(op, pattern) ==
    \E k \in 1..(Len(pattern) - 1) : pattern[k] = op /\ pattern[k + 1] \in Digits

\* pattern.split("><").collect_tuple().unwrap() panics unless there are
\* exactly two pieces
DemoMileagePanics(pattern) ==
    DemoRangeRegex(pattern) /\ Len(SplitOn(pattern, RANGE, <<>>)) # 2

\* the mileage closure |pattern, target| of ColumnFilters::default
DemoMileageSearchPattern(pattern, target) ==
    LET u == ParseUsize(target)
    IN  IF DemoRangeRegex(pattern)
        THEN LET pieces == SplitOn(pattern, RANGE, <<>>)
                 u_left == ParseUsize(pieces[1])
                 u_right == ParseUsize(pieces[2])
             IN  IF u_left.ok /\ u_right.ok /\ u.ok
                 THEN NumLeq(u_left.val, u.val) /\ NumLeq(u.val, u_right.val)
                 ELSE FALSE
        ELSE IF DemoOpRegex("<", pattern)
        THEN LET y == ParseUsize(Remove(pattern, LT))
             IN  IF y.ok /\ u.ok THEN NumLeq(u.val, y.val) ELSE FALSE
        ELSE IF DemoOpRegex(">", pattern)
        THEN LET y == ParseUsize(Remove(pattern, GT))
             IN  IF y.ok /\ u.ok THEN NumLeq(y.val, u.val) ELSE FALSE
        ELSE StartsWith(target, pattern)

\* the text of a term a user types in the demo's mileage menu: <N, >N, A><B
DemoPiece(term) ==
    IF term.op = RANGE THEN NatToString(term.n) \o RANGE \o NatToString(term.hi)
    ELSE term.op \o NatToString(term.n)

\* the demo's mileage matcher called with the text of a term and the display
\* string flt.mileage.to_string() of v
MatchDemoMileage(term, v) ==
    /\ NotCalled
    /\ last' = Matched("DemoMileage", <<term>>, v, DemoPiece(term), NatToString(v),
                       IF DemoMileagePanics(DemoPiece(term)) THEN FALSE
                       ELSE DemoMileageSearchPattern(DemoPiece(term), NatToString(v)))
    /\ panicked' = DemoMileagePanics(DemoPiece(term))
    /\ UNCHANGED <<backing_data, column_filters>>

NextMatch ==
    \/ /\ NotCalled
       /\ \E kind \in {"U32", "I32", "Date"} :
              \E pattern \in RawPatterns(kind), target \in RawTargets(kind) :
                  MatchRaw(kind, pattern, target)
    \/ /\ NotCalled
       /\ \E kind \in {"U32", "I32", "Date"} :
              \E a, b \in (CASE kind = "U32" -> U32Operands [] kind = "I32" -> I32Operands
                               [] kind = "Date" -> Dates),
                 v \in (CASE kind = "U32" -> U32Values [] kind = "I32" -> I32Values
                          [] kind = "Date" -> Dates) :
                  MatchRange(kind, a, b, v)
    \/ /\ NotCalled
       /\ \E pieces \in TermSeqs({<<>>, <<"A", "B">>, <<"S", "E">>, <<"D">>, <<"A", "B", "Q">>}),
              target \in {<<"A", "B", "Q">>, <<"D", "A", "L">>, <<"S", "E", "A">>, <<"A">>} :
              MatchStr(pieces, target)
    \/ /\ NotCalled
       /\ \E terms \in TermSeqs({Term(op, n) : op \in Ops, n \in U32Operands}), v \in U32Values :
              MatchU32(terms, v)
    \/ /\ NotCalled
       /\ \E terms \in TermSeqs({Term(op, n) : op \in Ops, n \in I32Operands}), v \in I32Values :
              MatchI32(terms, v)
    \/ /\ NotCalled
       /\ \E terms \in TermSeqs({Term(op, n) : op \in Ops, n \in Dates}), v \in Dates :
              MatchDate(terms, v)
    \/ /\ NotCalled
       /\ \E piece \in {<<"t">>, <<"t", "r", "u", "e">>, <<"f", "a">>,
                         <<"t", "r", "u", "e", "x">>},
              b \in BOOLEAN :
              MatchBool(piece, b)
    \/ /\ NotCalled
       /\ \E term \in {Term(op, n) : op \in {LT, GT}, n \in U32Operands}
                          \cup {[op |-> RANGE, n |-> a, hi |-> b] :
                                    a \in U32Operands, b \in U32Operands},
              v \in U32Values :
              MatchDemoMileage(term, v)

SpecMatch == InitMatch /\ [][NextMatch]_vars

(***************************************************************************)
(* The menu of a column over flights that have a departure date, in a      *)
(* table of text, mileage and date columns: the host registers columns,    *)
(* the user opens a menu, types a search text and clicks checkboxes.       *)
(***************************************************************************)
\* flights whose mileages and dates are, in the order of the rows, neither in
\* the order of their values nor in that of their display strings
MenuFlights == <<
    [orig |-> <<"S", "E", "A">>, mileage |-> 1100, dep_date |-> NaiveDate(2015, 5, 11)],
    [orig |-> ABQ, mileage |-> 642,  dep_date |-> NaiveDate(2015, 5, 9)],
    [orig |-> ABQ, mileage |-> 244,  dep_date |-> NaiveDate(2015, 5, 11)] >>

\* string_filters!, u32_filters! and naive_date_filters! of the host
MenuColumnSpecs == {
    NewColumnFilter("orig", "Str", "orig", "to_string"),
    NewColumnFilter("mileage", "U32", "mileage", "to_string"),
    NewColumnFilter("dep_date", "Date", "dep_date", "date_str_pattern") }

\* the data sets: the sequences of at most MaxRows of these flights, in any order
InitMenu ==
    /\ backing_data \in UNION {{[k \in 1..n |-> MenuFlights[f[k]]] :
                                    f \in {g \in [1..n -> 1..Len(MenuFlights)] :
                                              \A i, j \in 1..n : g[i] = g[j] => i = j}} :
                                n \in 0..MaxRows}
    /\ column_filters = <<>>
    /\ panicked = FALSE
    /\ last = Ran("new", 0)

NextMenu ==
    \/ \E cf \in MenuColumnSpecs : column_filter(cf, MaxCols)
    \/ \E self \in 1..MaxCols, s \in AllSearchTexts \cup SearchTexts("Date") : BindSearch(self, s)
    \/ \E self \in 1..MaxCols, k \in 1..MaxRows : BindCheckbox(self, k)

SpecMenu == InitMenu /\ [][NextMenu]_vars

(***************************************************************************)
(* Search texts with an empty comma-separated piece: the user types a text *)
(* that ends or begins with a comma, or a comma alone, in the menu of a    *)
(* text, mileage or date column, clicks checkboxes and clicks APPLY.       *)
(***************************************************************************)
\* the texts without an empty piece, per kind of column
WholeTexts(kind) ==
    CASE kind = "Str"  -> {<<"A", "B">>}
      [] kind = "U32"  -> {<<">", "5", "0", "0">>}
      [] kind = "Date" -> {<<">", "5", "/", "9", "/", "2", "0", "1", "5">>}

\* what the user types: such a text, the text followed or preceded by a
\* comma, or a comma alone
EmptyPieceTexts(kind) ==
    WholeTexts(kind)
        \cup {t \o <<",">> : t \in WholeTexts(kind)}
        \cup {<<",">> \o t : t \in WholeTexts(kind)}
        \cup {<<",">>}

\* bind, the user has typed such a text in the search field
BindSearchEmptyPiece(self, s) ==
    /\ ~panicked
    /\ last' = Ran("BindSearch", self)
    /\ self \in 1..Len(column_filters)
    /\ s \in EmptyPieceTexts(column_filters[self].kind)
    /\ column_filters' = [column_filters EXCEPT ![self].search_field = s]
    /\ panicked' = ~BindOk(self)
    /\ UNCHANGED backing_data

NextEmptyPiece ==
    \/ \E cf \in MenuColumnSpecs : column_filter(cf, MaxCols)
    \/ \E self \in 1..Len(column_filters) :
           \E s \in EmptyPieceTexts(column_filters[self].kind) :
               BindSearchEmptyPiece(self, s)
    \/ \E self \in 1..MaxCols, k \in 1..MaxRows : BindCheckbox(self, k)
    \/ \E self \in 1..MaxCols : BindApply(self)

SpecEmptyPiece == InitMenu /\ [][NextEmptyPiece]_vars

(***************************************************************************)
(* One render pass, statement by statement: the host calls bind for every  *)
(* column, of which the popup of one is open and receives at most one      *)
(* input event, and then TableFilter::evaluate for every row.  A for_each  *)
(* of bind is one step per element, so the states between two elements are *)
(* states of this specification.  `last` holds the statement just executed *)
(* and the locals of the pass: pc, col (the column bind is called for),    *)
(* open (the column whose popup is open), ev (the input event), idx (the   *)
(* next menu entry or row), cmd and rest (the running for_each and the     *)
(* elements it has yet to visit), before and after (the exclusion sets at  *)
(* the start of the latest command and those the whole command leaves),    *)
(* seen (the exclusion sets the statement has read, by column), result     *)
(* (what a read has returned).                                             *)
(***************************************************************************)
\* the exclusion sets of the columns, by position
Sets(cfs) == [j \in 1..Len(cfs) |-> cfs[j].unselected_values]

\* the input events of one frame: those the open popup of column cf can
\* receive, and a click on the CANCELLED checkbox of the k-th row of the table
\* body
PassEvents(cf) ==
    {[kind |-> "none"]}
        \cup {[kind |-> "type", s |-> s] : s \in SearchTexts(cf.kind)}
        \cup {[kind |-> "click", k |-> k] : k \in 1..MaxRows}
        \cup {[kind |-> b] : b \in {"APPLY", "NONE", "ALL", "RESET"}}
        \cup {[kind |-> "row", k |-> k] : k \in 1..MaxRows}

\* no pass has begun: the host is still registering columns
InSetup == last.op \in {"new", "column_filter"}

\* the host begins a frame: the popup of column `open` is open and receives ev
PassBegin(open, ev) ==
    /\ ~panicked
    /\ IF InSetup THEN TRUE ELSE last.pc = "idle"
    /\ open \in 1..Len(column_filters)
    /\ ev \in PassEvents(column_filters[open])
    /\ last' = [op |-> "PassBegin", self |-> 0, pc |-> "header", col |-> 1,
                open |-> open, ev |-> ev, idx |-> 0, cmd |-> "", rest |-> <<>>,
                before |-> Sets(column_filters), after |-> Sets(column_filters),
                seen |-> <<>>, result |-> <<>>]
    /\ UNCHANGED <<backing_data, column_filters, panicked>>

\* where the pass goes on when bind of column l.col returns: the header of
\* the next column, or evaluate of the first row
AfterBind(l) ==
    IF l.col < Len(column_filters)
    THEN [l EXCEPT !.pc = "header", !.col = @ + 1]
    ELSE [l EXCEPT !.pc = "evaluate", !.idx = 1]

\* the columns Iterator::any visits in is_active_for_id(id): those registered
\* under id, up to the first that is active
ActiveVisited(cfs, id) ==
    {j \in 1..Len(cfs) :
        /\ cfs[j].id = id
        /\ \A i \in 1..(j - 1) : cfs[i].id = id => ~is_active(cfs[i])}

\* the header cell of column last.col, drawn before bind_for_id is called for
\* it: the host asks is_active_for_id(id) to mark a filtered column
PassIsActive ==
    /\ ~panicked
    /\ ~InSetup /\ last.pc = "header"
    /\ last' = [last EXCEPT
                    !.op = "PassIsActive", !.self = last.col, !.pc = "bind",
                    !.seen = [j \in ActiveVisited(column_filters,
                                                  column_filters[last.col].id)
                                 |-> column_filters[j].unselected_values]]
    /\ UNCHANGED <<backing_data, column_filters, panicked>>

\* bind of a column whose popup is closed: Popup::show does not run the closure
PassBindClosed ==
    /\ ~panicked
    /\ ~InSetup /\ last.pc = "bind"
    /\ last.col # last.open
    /\ last' = AfterBind([last EXCEPT !.op = "PassBindClosed", !.self = last.col,
                                      !.seen = <<>>])
    /\ UNCHANGED <<backing_data, column_filters, panicked>>

\* bind of the column whose popup is open, up to the search field: the
\* TextEdit writes what the user typed
PassBindOpen ==
    /\ ~panicked
    /\ ~InSetup /\ last.pc = "bind"
    /\ last.col = last.open
    /\ column_filters' =
           IF last.ev.kind = "type"
           THEN [column_filters EXCEPT ![last.col].search_field = last.ev.s]
           ELSE column_filters
    /\ last' = [last EXCEPT !.op = "PassBindOpen", !.self = last.col,
                            !.pc = "facet", !.seen = <<>>]
    /\ UNCHANGED <<backing_data, panicked>>

\* let filter_array = self.selectable_value_bool_array(): reads the exclusion
\* set of every column of another id, or panics
PassFacet ==
    /\ ~panicked
    /\ ~InSetup /\ last.pc = "facet"
    /\ panicked' = ~BindOk(last.col)
    /\ last' = [last EXCEPT
                    !.op = "PassFacet", !.pc = "list", !.idx = 1,
                    !.result = selectable_value_bool_array(column_filters, backing_data,
                                                           last.col).val,
                    !.seen = [j \in {i \in 1..Len(column_filters) :
                                        column_filters[i].id # column_filters[last.col].id}
                                 |-> column_filters[j].unselected_values]]
    /\ UNCHANGED <<backing_data, column_filters>>

\* one turn of the for_each over the menu's rows: `checked` reads the column's
\* exclusion set, the checkbox is drawn, and a click on it is handled
PassListEntry ==
    /\ ~panicked
    /\ ~InSetup /\ last.pc = "list"
    /\ LET c == last.col
           rows == menu_rows(column_filters[c], backing_data)
           clicked == last.ev.kind = "click" /\ last.ev.k = last.idx
           cfs == IF clicked
                  THEN [column_filters EXCEPT ![c] = click_checkbox(@, rows[last.idx])]
                  ELSE column_filters
       IN  /\ last.idx <= Len(rows)
           /\ column_filters' = cfs
           /\ last' = [last EXCEPT
                           !.op = "PassListEntry", !.idx = @ + 1,
                           !.seen = [j \in {c} |-> column_filters[j].unselected_values],
                           !.before = IF clicked THEN Sets(column_filters) ELSE @,
                           !.after = IF clicked THEN Sets(cfs) ELSE @]
    /\ UNCHANGED <<backing_data, panicked>>

\* mutant of for_each_returns: for_each gives control back before it has
\* visited every element
for_each_returns_early(rest) == TRUE

\* Iterator::for_each returns once the iterator is exhausted
for_each_returns(rest) == rest = <<>>

\* the row of buttons after the menu: the button the user clicked collects
\* the elements of its for_each
PassButtons ==
    /\ ~panicked
    /\ ~InSetup /\ last.pc = "list"
    /\ LET c == last.col
           cf == column_filters[c]
           b == last.ev.kind
       IN  /\ last.idx > Len(menu_rows(cf, backing_data))
           /\ last' =
                IF b = "APPLY" /\ cf.search_field # <<>>
                THEN [last EXCEPT !.op = "PassButtons", !.pc = "for_each", !.cmd = b,
                          !.rest = unique_by(cf, backing_data, {}), !.seen = <<>>,
                          !.before = Sets(column_filters),
                          !.after = Sets([column_filters EXCEPT
                                             ![c] = click_apply(@, backing_data)])]
                ELSE IF b = "NONE"
                THEN [last EXCEPT !.op = "PassButtons", !.pc = "for_each", !.cmd = b,
                          !.rest = unique_by(cf, backing_data, {}), !.seen = <<>>,
                          !.before = Sets(column_filters),
                          !.after = Sets([column_filters EXCEPT
                                             ![c] = click_none(@, backing_data)])]
                ELSE IF b = "ALL"
                THEN [last EXCEPT !.op = "PassButtons", !.pc = "for_each", !.cmd = b,
                          !.rest = unique_by(cf, backing_data, {}), !.seen = <<>>,
                          !.before = Sets(column_filters),
                          !.after = Sets([column_filters EXCEPT
                                             ![c] = click_all(@, backing_data)])]
                ELSE IF b = "RESET"
                THEN [last EXCEPT !.op = "PassButtons", !.pc = "for_each", !.cmd = b,
                          !.rest = [j \in 1..Len(column_filters) |-> j], !.seen = <<>>,
                          !.before = Sets(column_filters),
                          !.after = Sets(click_reset(column_filters, c))]
                ELSE AfterBind([last EXCEPT !.op = "PassButtons", !.seen = <<>>])
    /\ UNCHANGED <<backing_data, column_filters, panicked>>

\* one element of the running for_each: a row of APPLY, NONE or ALL, or a
\* column of TableFilter::reset
PassForEach ==
    /\ ~panicked
    /\ ~InSetup /\ last.pc = "for_each"
    /\ last.rest # <<>>
    /\ LET c == last.col
           d == Head(last.rest)
       IN  column_filters' =
               IF last.cmd = "APPLY"
               THEN [column_filters EXCEPT ![c] = apply_each(@, <<d>>)]
               ELSE IF last.cmd = "NONE"
               THEN [column_filters EXCEPT ![c] = none_each(@, <<d>>)]
               ELSE IF last.cmd = "ALL"
               THEN [column_filters EXCEPT ![c] = all_each(@, <<d>>)]
               ELSE [column_filters EXCEPT ![d] = reset(@)]
    /\ last' = [last EXCEPT !.op = "PassForEach", !.rest = Tail(@), !.seen = <<>>]
    /\ UNCHANGED <<backing_data, panicked>>

\* the for_each returns, and with it the button's handler and bind
PassForEachReturn ==
    /\ ~panicked
    /\ ~InSetup /\ last.pc = "for_each"
    /\ for_each_returns(last.rest)
    /\ last' = AfterBind([last EXCEPT !.op = "PassForEachReturn", !.seen = <<>>])
    /\ UNCHANGED <<backing_data, column_filters, panicked>>

\* the columns Iterator::all visits for item: up to the first whose evaluate
\* is false
ColumnsVisited(cfs, item) ==
    {j \in 1..Len(cfs) : \A i \in 1..(j - 1) : evaluate(cfs[i], item)}

\* mutant of PassEvaluate: evaluate answers from the exclusion sets it saw
\* before the latest command
PassEvaluate_cached ==
    /\ ~panicked
    /\ ~InSetup /\ last.pc = "evaluate"
    /\ last.idx <= Len(backing_data)
    /\ last' = [last EXCEPT
                    !.op = "PassEvaluate", !.self = 0, !.idx = @ + 1,
                    !.result =
                        TableFilter_evaluate(
                            [j \in 1..Len(column_filters) |->
                                [column_filters[j] EXCEPT
                                    !.unselected_values = last.before[j]]],
                            backing_data[last.idx]),
                    !.seen = [j \in ColumnsVisited(column_filters, backing_data[last.idx])
                                 |-> column_filters[j].unselected_values]]
    /\ UNCHANGED <<backing_data, column_filters, panicked>>

\* mutant of PassEvaluate: evaluate narrows as it reads, excluding the row's
\* value in every column whose pending search text the row does not match
PassEvaluate_narrowing ==
    /\ ~panicked
    /\ ~InSetup /\ last.pc = "evaluate"
    /\ last.idx <= Len(backing_data)
    /\ last' = [last EXCEPT
                    !.op = "PassEvaluate", !.self = 0, !.idx = @ + 1,
                    !.result = TableFilter_evaluate(column_filters, backing_data[last.idx]),
                    !.seen = [j \in ColumnsVisited(column_filters, backing_data[last.idx])
                                 |-> column_filters[j].unselected_values]]
    /\ column_filters' =
           [j \in 1..Len(column_filters) |->
               LET cf == column_filters[j]
                   d == backing_data[last.idx]
               IN  IF cf.search_field # <<>>
                        /\ ~search_pattern(cf, cf.search_field, get_string_value(cf, d))
                   THEN [cf EXCEPT !.unselected_values = @ \cup {get_value(cf, d)}]
                   ELSE cf]
    /\ UNCHANGED <<backing_data, panicked>>

\* the table body: TableFilter::evaluate of the next row
PassEvaluate ==
    /\ ~panicked
    /\ ~InSetup /\ last.pc = "evaluate"
    /\ last.idx <= Len(backing_data)
    /\ last' = [last EXCEPT
                    !.op = "PassEvaluate", !.self = 0, !.idx = @ + 1,
                    !.result = TableFilter_evaluate(column_filters, backing_data[last.idx]),
                    !.seen = [j \in ColumnsVisited(column_filters, backing_data[last.idx])
                                 |-> column_filters[j].unselected_values]]
    /\ UNCHANGED <<backing_data, column_filters, panicked>>

\* the row TableFilter::evaluate has just let through is drawn, and the user's
\* click is on its CANCELLED checkbox: the host flips the field
PassHostMutate ==
    /\ ~panicked
    /\ ~InSetup /\ last.pc = "evaluate"
    /\ last.op = "PassEvaluate" /\ last.result = TRUE
    /\ last.ev.kind = "row" /\ last.ev.k = last.idx - 1
    /\ backing_data' = [backing_data EXCEPT ![last.idx - 1].cancelled = ~@]
    /\ last' = [last EXCEPT !.op = "PassHostMutate", !.seen = <<>>]
    /\ UNCHANGED <<column_filters, panicked>>

\* the frame is drawn
PassEnd ==
    /\ ~panicked
    /\ ~InSetup /\ last.pc = "evaluate"
    /\ last.idx > Len(backing_data)
    /\ last' = [op |-> "PassEnd", self |-> 0, pc |-> "idle"]
    /\ UNCHANGED <<backing_data, column_filters, panicked>>

InitPass ==
    /\ backing_data \in Datasets
    /\ column_filters = <<>>
    /\ panicked = FALSE
    /\ last = Ran("new", 0)

NextPass ==
    \/ InSetup /\ \E cf \in ColumnSpecs : column_filter(cf, MaxCols)
    \/ \E open \in 1..Len(column_filters) :
           \E ev \in PassEvents(column_filters[open]) : PassBegin(open, ev)
    \/ PassIsActive
    \/ PassBindClosed
    \/ PassBindOpen
    \/ PassFacet
    \/ PassListEntry
    \/ PassButtons
    \/ PassForEach
    \/ PassForEachReturn
    \/ PassEvaluate
    \/ PassHostMutate
    \/ PassEnd

SpecPass == InitPass /\ [][NextPass]_vars

(***************************************************************************)
(* The RefCells.  TableFilter::column_filters and, in each column's        *)
(* ColumnFilterState, unselected_values and search_field are RefCells: a   *)
(* call of borrow() or borrow_mut() panics when the cell's borrows do not  *)
(* allow it.  A call of the host is the sequence of borrows and drops its  *)
(* statements perform, in the order of the code; BorrowConflict runs the   *)
(* sequence against the borrow flags of the cells.  The host registers its *)
(* columns first and then calls evaluate, is_active_for_id, reset and      *)
(* bind_for_id in any order; `last` records the call and whether a borrow  *)
(* in it was refused.                                                      *)
(***************************************************************************)
\* the cells
CF == <<"column_filters", 0>>
UV(j) == <<"unselected_values", j>>
SF(j) == <<"search_field", j>>

\* an event of a cell: "borrow" (borrow()), "drop" (the drop of its Ref),
\* "borrow_mut" (borrow_mut()) or "drop_mut" (the drop of its RefMut)
Ev(act, cell) == [act |-> act, cell |-> cell]

\* the concatenation of a sequence of sequences
RECURSIVE Flatten(_)
Flatten(ss) == IF ss = <<>> THEN <<>> ELSE Head(ss) \o Flatten(Tail(ss))

\* the borrow flag of every cell of a table of n columns when no borrow is
\* live: the count of live Refs, -1 standing for a live RefMut
NoBorrows(n) ==
    [cell \in {CF} \cup {UV(j) : j \in 1..n} \cup {SF(j) : j \in 1..n} |-> 0]

\* RefCell::borrow / borrow_mut / drop run over a sequence of events: is a
\* borrow refused (BorrowError, BorrowMutError)
RECURSIVE BorrowConflict(_, _)
BorrowConflict(trace, live) ==
    IF trace = <<>> THEN FALSE
    ELSE LET e == Head(trace)
         IN  IF e.act = "borrow"
             THEN IF live[e.cell] < 0 THEN TRUE
                  ELSE BorrowConflict(Tail(trace), [live EXCEPT ![e.cell] = @ + 1])
             ELSE IF e.act = "borrow_mut"
             THEN IF live[e.cell] # 0 THEN TRUE
                  ELSE BorrowConflict(Tail(trace), [live EXCEPT ![e.cell] = -1])
             ELSE IF e.act = "drop"
             THEN BorrowConflict(Tail(trace), [live EXCEPT ![e.cell] = @ - 1])
             ELSE BorrowConflict(Tail(trace), [live EXCEPT ![e.cell] = 0])

\* ColumnFilter::contains, evaluate and is_active of column j: a temporary
\* Ref of unselected_values
ContainsTrace(j) == <<Ev("borrow", UV(j)), Ev("drop", UV(j))>>

\* TableFilter::reset: under a Ref of column_filters, ColumnFilter::reset of
\* every column, which takes two temporary RefMuts
ResetTrace(cfs) ==
    <<Ev("borrow", CF)>>
        \o Flatten([j \in 1..Len(cfs) |->
                       <<Ev("borrow_mut", SF(j)), Ev("drop_mut", SF(j)),
                         Ev("borrow_mut", UV(j)), Ev("drop_mut", UV(j))>>])
        \o <<Ev("drop", CF)>>

\* mutant of SearchFieldBlock: the RefMut of search_field is not in a block
\* of its own and lives on
SearchFieldBlock_unscoped(c) == <<Ev("borrow_mut", SF(c))>>

\* the block around the TextEdit in bind: the RefMut of search_field is
\* dropped at its closing brace
SearchFieldBlock(c) == <<Ev("borrow_mut", SF(c)), Ev("drop_mut", SF(c))>>

\* the table after the TextEdit of bind for column c
AfterTextEdit(cfs, c, ev) ==
    IF ev.kind = "type" THEN [cfs EXCEPT ![c].search_field = ev.s] ELSE cfs

\* TableFilter::bind_for_id(id, response): find and cf.bind under a Ref of
\* column_filters, the popup open and receiving ev
BindForIdTrace(cfs, data, id, ev) ==
    LET c == FindById(cfs, id)
        typed == AfterTextEdit(cfs, c, ev)
        cf == typed[c]
        \* selectable_value_bool_array up to its asserts: get_eval_bool_array
        \* of the columns of another id; the Ref of column_filters lives to
        \* the end of `let evals = ..;`
        FacetTrace ==
            <<Ev("borrow", CF)>>
                \o Flatten([j \in 1..Len(typed) |->
                               IF typed[j].id # cf.id
                               THEN Flatten([i \in 1..Len(data) |-> ContainsTrace(j)])
                               ELSE <<>>])
                \o <<Ev("drop", CF)>>
        \* `let mut checked = ..;` for a listed row d: the temporary Refs of
        \* the operands that && and || evaluate, dropped in the reverse order
        CheckedTrace(d) ==
            IF get_value(cf, d) \in cf.unselected_values
            THEN <<Ev("borrow", UV(c)), Ev("drop", UV(c))>>
            ELSE IF cf.search_field = <<>>
            THEN <<Ev("borrow", UV(c)), Ev("borrow", SF(c)),
                   Ev("drop", SF(c)), Ev("drop", UV(c))>>
            ELSE <<Ev("borrow", UV(c)), Ev("borrow", SF(c)), Ev("borrow", SF(c)),
                   Ev("drop", SF(c)), Ev("drop", SF(c)), Ev("drop", UV(c))>>
        listed == menu_rows(cf, data)
        \* the scroll area: search_field_empty, the filter closure for every
        \* row, then checked, the checkbox and its click handler for every
        \* listed row
        ListTrace ==
            <<Ev("borrow", SF(c)), Ev("drop", SF(c))>>
                \o Flatten([i \in 1..Len(data) |->
                               IF cf.search_field = <<>> THEN <<>>
                               ELSE <<Ev("borrow", SF(c)), Ev("drop", SF(c))>>])
                \o Flatten([k \in 1..Len(listed) |->
                               CheckedTrace(listed[k])
                                   \o (IF ev.kind = "click" /\ ev.k = k
                                       THEN <<Ev("borrow_mut", UV(c)), Ev("drop_mut", UV(c))>>
                                       ELSE <<>>)])
        unique == unique_by(cf, data, {})
        \* the row of buttons: the handler of the clicked one
        ButtonsTrace ==
            IF ev.kind = "APPLY"
            THEN <<Ev("borrow", SF(c)), Ev("drop", SF(c))>>
                     \o (IF cf.search_field = <<>> THEN <<>>
                         ELSE Flatten([k \in 1..Len(unique) |->
                                          <<Ev("borrow", SF(c)), Ev("drop", SF(c)),
                                            Ev("borrow_mut", UV(c)), Ev("drop_mut", UV(c))>>]))
            ELSE IF ev.kind \in {"NONE", "ALL"}
            THEN Flatten([k \in 1..Len(unique) |->
                             <<Ev("borrow_mut", UV(c)), Ev("drop_mut", UV(c))>>])
            ELSE IF ev.kind = "RESET"
            THEN ResetTrace(typed)
            ELSE <<>>
        \* ColumnFilter::bind of column c
        BindTrace ==
            SearchFieldBlock(c)
                \o FacetTrace
                \o (IF selectable_value_bool_array(typed, data, c).ok
                    THEN ListTrace \o ButtonsTrace
                    ELSE <<>>)
    IN  <<Ev("borrow", CF)>> \o (IF c = 0 THEN <<>> ELSE BindTrace) \o <<Ev("drop", CF)>>

\* the host calls TableFilter::evaluate for the i-th row: Iterator::all under
\* a Ref of column_filters; `last` records the call and whether a borrow in
\* it was refused
BorrowEvaluate(i) ==
    /\ ~panicked
    /\ ~InSetup \/ column_filters # <<>>
    /\ i \in 1..Len(backing_data)
    /\ LET trace == <<Ev("borrow", CF)>>
                        \o Flatten([j \in 1..Len(column_filters) |->
                                       IF j \in ColumnsVisited(column_filters, backing_data[i])
                                       THEN ContainsTrace(j) ELSE <<>>])
                        \o <<Ev("drop", CF)>>
       IN  last' = [op |-> "evaluate", self |-> 0, ev |-> "",
                    conflict |-> BorrowConflict(trace, NoBorrows(Len(column_filters)))]
    /\ panicked' = last'.conflict
    /\ UNCHANGED <<backing_data, column_filters>>

\* the host calls TableFilter::is_active_for_id(id): filter, Iterator::any
\* under a Ref of column_filters
BorrowIsActiveForId(id) ==
    /\ ~panicked
    /\ ~InSetup \/ column_filters # <<>>
    /\ LET trace == <<Ev("borrow", CF)>>
                        \o Flatten([j \in 1..Len(column_filters) |->
                                       IF j \in ActiveVisited(column_filters, id)
                                       THEN ContainsTrace(j) ELSE <<>>])
                        \o <<Ev("drop", CF)>>
       IN  last' = [op |-> "is_active_for_id", self |-> 0, ev |-> "",
                    conflict |-> BorrowConflict(trace, NoBorrows(Len(column_filters)))]
    /\ panicked' = last'.conflict
    /\ UNCHANGED <<backing_data, column_filters>>

\* the host calls TableFilter::reset
BorrowReset ==
    /\ ~panicked
    /\ ~InSetup \/ column_filters # <<>>
    /\ last' = [op |-> "reset", self |-> 0, ev |-> "",
                conflict |-> BorrowConflict(ResetTrace(column_filters),
                                            NoBorrows(Len(column_filters)))]
    /\ panicked' = last'.conflict
    /\ column_filters' = IF last'.conflict THEN column_filters
                         ELSE TableFilter_reset(column_filters)
    /\ UNCHANGED backing_data

\* the host calls TableFilter::bind_for_id(id, response) with the popup open,
\* and the popup receives one event; an id that no column has binds nothing
BorrowBindForId(id) ==
    /\ ~panicked
    /\ ~InSetup \/ column_filters # <<>>
    /\ LET c == FindById(column_filters, id)
       IN  IF c = 0
           THEN /\ last' = [op |-> "bind_for_id", self |-> 0, ev |-> "",
                            conflict |-> BorrowConflict(
                                BindForIdTrace(column_filters, backing_data, id,
                                               [kind |-> "none"]),
                                NoBorrows(Len(column_filters)))]
                /\ panicked' = last'.conflict
                /\ column_filters' = column_filters
           ELSE \E ev \in {e \in PassEvents(column_filters[c]) : e.kind # "row"} :
                    LET typed == AfterTextEdit(column_filters, c, ev)
                        listed == menu_rows(typed[c], backing_data)
                    IN  /\ last' = [op |-> "bind_for_id", self |-> c, ev |-> ev.kind,
                                    conflict |-> BorrowConflict(
                                        BindForIdTrace(column_filters, backing_data, id, ev),
                                        NoBorrows(Len(column_filters)))]
                        /\ IF last'.conflict
                           THEN /\ panicked' = TRUE
                                /\ column_filters' = column_filters
                           ELSE IF ~selectable_value_bool_array(typed, backing_data, c).ok
                           THEN /\ panicked' = TRUE
                                /\ column_filters' = typed
                           ELSE /\ panicked' = FALSE
                                /\ column_filters' =
                                       IF ev.kind = "click" /\ ev.k <= Len(listed)
                                       THEN [typed EXCEPT
                                                ![c] = click_checkbox(@, listed[ev.k])]
                                       ELSE IF ev.kind = "APPLY"
                                       THEN [typed EXCEPT ![c] = click_apply(@, backing_data)]
                                       ELSE IF ev.kind = "NONE"
                                       THEN [typed EXCEPT ![c] = click_none(@, backing_data)]
                                       ELSE IF ev.kind = "ALL"
                                       THEN [typed EXCEPT ![c] = click_all(@, backing_data)]
                                       ELSE IF ev.kind = "RESET"
                                       THEN click_reset(typed, c)
                                       ELSE typed
    /\ UNCHANGED backing_data

NextBorrow ==
    \/ InSetup /\ \E cf \in ColumnSpecs : column_filter(cf, MaxCols)
    \/ \E i \in 1..MaxRows : BorrowEvaluate(i)
    \/ \E id \in LookupIds : BorrowIsActiveForId(id)
    \/ BorrowReset
    \/ \E id \in LookupIds : BorrowBindForId(id)

SpecBorrow == Init /\ [][NextBorrow]_vars

(***************************************************************************)
(* Properties.                                                             *)
(***************************************************************************)
Cols == 1..Len(column_filters)
RowIdx == 1..Len(backing_data)

\* the distinct values column k has in the data
ValuesIn(k) == {get_value(column_filters[k], backing_data[i]) : i \in RowIdx}

\* C1: for every row, TableFilter.evaluate(row) is the logical AND of
\* ColumnFilter.evaluate(row) over all registered column filters (true when
\* none is registered).
C1_TableEvaluateIsConjunction ==
    \A t \in AllRows :
        TableFilter_evaluate(column_filters, t)
            = (\A k \in Cols : evaluate(column_filters[k], t))

\* C1 witness: a row of the data that one column lets through and another
\* hides, so the table hides it
C1_Witness ==
    \E i \in RowIdx :
        /\ ~TableFilter_evaluate(column_filters, backing_data[i])
        /\ \E k \in Cols : evaluate(column_filters[k], backing_data[i])
        /\ \E k \in Cols : ~evaluate(column_filters[k], backing_data[i])

\* C2: ColumnFilter.evaluate(row) is true iff get_value(row) is not in
\* unselected_values, hence true for every row when the set is empty; and a
\* frame in which the user only types in the search field changes the result
\* of evaluate for no column and no row.
C2_EvaluateIsExclusionOnly ==
    /\ [](\A k \in Cols, t \in AllRows :
            /\ evaluate(column_filters[k], t)
                 <=> get_value(column_filters[k], t) \notin column_filters[k].unselected_values
            /\ column_filters[k].unselected_values = {} => evaluate(column_filters[k], t))
    /\ [][\A self \in 1..MaxCols, s \in AllSearchTexts :
            BindSearch(self, s) =>
                \A k \in Cols, t \in AllRows :
                    evaluate(column_filters'[k], t) = evaluate(column_filters[k], t)]_vars

\* C2 witness: the user has just typed a search text that does not match the
\* display string of some row, nothing is excluded, and the row is still let
\* through
C2_Witness ==
    /\ last.op = "BindSearch"
    /\ ~panicked
    /\ LET cf == column_filters[last.self]
       IN  /\ cf.search_field # <<>>
           /\ cf.unselected_values = {}
           /\ \E i \in RowIdx :
                  /\ ~search_pattern(cf, cf.search_field, get_string_value(cf, backing_data[i]))
                  /\ evaluate(cf, backing_data[i])

\* C3: for every column c, the facet vector of c is, row by row, the AND of
\* evaluate over every registered column other than c, and the achievable
\* values of c are the values of the rows the vector marks.
C3_FacetIsConjunctionOfOthers ==
    \A c \in Cols :
        LET r == selectable_value_bool_array(column_filters, backing_data, c)
        IN  /\ r.ok
            /\ Len(r.val) = Len(backing_data)
            /\ \A i \in RowIdx :
                   r.val[i] = (\A d \in Cols \ {c} : evaluate(column_filters[d], backing_data[i]))
            /\ visible_unique(column_filters[c], backing_data, r.val)
                   = {get_value(column_filters[c], backing_data[i]) :
                          i \in {j \in RowIdx : r.val[j]}}

\* the same table with column c's own exclusion set and search text replaced
WithOwnState(c, S, s) ==
    [column_filters EXCEPT ![c].unselected_values = S, ![c].search_field = s]

\* C4: self-exclusion: the facet vector and the achievable values of column c
\* are the same in any two states that differ only in c's own exclusion set
\* and search text.
C4_SelfExclusion ==
    \A c \in Cols :
        \A S \in SUBSET ValuesIn(c), s \in SearchTexts(column_filters[c].kind) \cup {<<>>} :
            LET here == selectable_value_bool_array(column_filters, backing_data, c)
                there == selectable_value_bool_array(WithOwnState(c, S, s), backing_data, c)
            IN  /\ there = here
                /\ here.ok =>
                       visible_unique(WithOwnState(c, S, s)[c], backing_data, there.val)
                           = visible_unique(column_filters[c], backing_data, here.val)

\* C4 witness: column c excludes the value of a row the other columns let
\* through, while the other columns hide another row
C4_Witness ==
    \E c \in Cols :
        LET r == selectable_value_bool_array(column_filters, backing_data, c)
        IN  /\ r.ok
            /\ \E i \in RowIdx : r.val[i] /\ ~evaluate(column_filters[c], backing_data[i])
            /\ \E i \in RowIdx : ~r.val[i]

\* C5: after TableFilter.reset(), called by the host or by the RESET button
\* of any column's menu, every column has an empty exclusion set and an empty
\* search text, no column is active and the table lets every row through.
C5_ResetClearsEveryColumn ==
    last.op \in {"Reset", "BindReset"} =>
        /\ \A k \in Cols :
               /\ column_filters[k].unselected_values = {}
               /\ column_filters[k].search_field = <<>>
               /\ ~is_active(column_filters[k])
               /\ ~is_active_for_id(column_filters, column_filters[k].id)
        /\ \A t \in AllRows : TableFilter_evaluate(column_filters, t)

\* C5 witness: RESET has been clicked in the menu of one of two columns
C5_Witness ==
    /\ last.op = "BindReset"
    /\ Len(column_filters) >= 2
    /\ backing_data # <<>>

\* C6: after APPLY with a non-empty search text s on a column, every distinct
\* value v the column has in the data is outside the exclusion set iff
\* search_pattern(s, get_string_value(row)) holds for at least one row bearing
\* v, and inside it otherwise.
C6_ApplyKeepsValuesOfMatchingRows ==
    (last.op = "BindApply" /\ column_filters[last.self].search_field # <<>>) =>
        LET cf == column_filters[last.self]
        IN  \A v \in ValuesIn(last.self) :
                v \notin cf.unselected_values
                    <=> \E i \in RowIdx :
                            /\ get_value(cf, backing_data[i]) = v
                            /\ search_pattern(cf, cf.search_field,
                                              get_string_value(cf, backing_data[i]))

\* C7: APPLY with an empty search text leaves the exclusion set of the column,
\* and of every other column, unchanged.
C7_ApplyEmptySearchChangesNothing ==
    [][\A self \in 1..MaxCols :
          (BindApply(self) /\ column_filters[self].search_field = <<>>) =>
              /\ Len(column_filters') = Len(column_filters)
              /\ \A k \in Cols :
                     column_filters'[k].unselected_values
                         = column_filters[k].unselected_values]_vars

\* C7 witness: APPLY has been clicked with an empty search text in the menu of
\* a column that excludes a value
C7_Witness ==
    /\ last.op = "BindApply"
    /\ column_filters[last.self].search_field = <<>>
    /\ is_active(column_filters[last.self])

\* C8: NONE immediately followed by ALL on the same column leaves that
\* column's exclusion set empty.
C8_NoneThenAllIsInactive ==
    [][\A self \in 1..MaxCols :
          (last = Ran("BindNone", self) /\ BindAll(self)) =>
              column_filters'[self].unselected_values = {}]_vars

\* C9: a click on the checkbox of value v in a column's menu flips the
\* membership of v in that column's exclusion set and changes neither the
\* membership of another value, nor the search text, nor another column, nor
\* the data.
C9_ToggleFlipsOneValue ==
    [][\A self \in 1..MaxCols, k \in 1..MaxRows :
          BindCheckbox(self, k) =>
              LET cf == column_filters[self]
                  v == get_value(cf, menu_rows(cf, backing_data)[k])
              IN  /\ v \in column_filters'[self].unselected_values
                        <=> v \notin cf.unselected_values
                  /\ column_filters'[self].unselected_values \ {v}
                        = cf.unselected_values \ {v}
                  /\ column_filters'[self].search_field = cf.search_field
                  /\ Len(column_filters') = Len(column_filters)
                  /\ \A d \in Cols \ {self} : column_filters'[d] = column_filters[d]
                  /\ backing_data' = backing_data]_vars

\* C9 witness: a checkbox has been clicked in the menu of a column that has
\* both an excluded and an included value in the data
C9_Witness ==
    /\ last.op = "BindCheckbox"
    /\ \E v, w \in ValuesIn(last.self) :
           /\ v \in column_filters[last.self].unselected_values
           /\ w \notin column_filters[last.self].unselected_values

\* C10: is_active() of a column is true iff its exclusion set is non-empty,
\* and is_active_for_id(id) equals is_active() of the column registered
\* under id.
C10_IsActiveForIdIsTheColumns ==
    \A k \in Cols :
        /\ is_active(column_filters[k]) <=> column_filters[k].unselected_values # {}
        /\ is_active_for_id(column_filters, column_filters[k].id)
               = is_active(column_filters[k])

\* the comma-separated sub-patterns of p, stated on positions: the runs of p
\* between two commas (or an end of p) that hold no comma
SubPatternsOf(p) ==
    {SubSeq(p, i, j) : <<i, j>> \in
        {w \in (1..(Len(p) + 1)) \X (0..Len(p)) :
            /\ w[1] <= w[2] + 1
            /\ \A k \in w[1]..w[2] : p[k] # ","
            /\ (w[1] = 1 \/ p[w[1] - 1] = ",")
            /\ (w[2] = Len(p) \/ p[w[2] + 1] = ",")}}

\* C11: for a text column, search_pattern(p, v) holds iff v starts with at
\* least one of the comma-separated sub-patterns of p; "AB,SE" matches v iff v
\* starts with "AB" or with "SE".
C11_TextPatternIsOrOfPrefixes ==
    (last.op = "search_pattern" /\ last.kind = "Str") =>
        /\ last.result = (\E k \in 1..Len(last.terms) : StartsWith(last.target, last.terms[k]))
        /\ last.result = (\E sub \in SubPatternsOf(last.pattern) : StartsWith(last.target, sub))
        /\ last.pattern = <<"A", "B", ",", "S", "E">> =>
               last.result = (StartsWith(last.target, <<"A", "B">>)
                                \/ StartsWith(last.target, <<"S", "E">>))

\* C11 witness: "AB,SE" has matched "SEA", which only its second sub-pattern
\* is a prefix of
C11_Witness ==
    /\ last.op = "search_pattern"
    /\ last.kind = "Str"
    /\ last.pattern = <<"A", "B", ",", "S", "E">>
    /\ last.target = <<"S", "E", "A">>
    /\ last.result

\* the order of the values of an integer or date column; chronological
\* order is that of the count of days since the epoch
KindLeq(kind, a, b) ==
    IF kind = "Date" THEN to_epoch_days(a) <= to_epoch_days(b) ELSE a <= b

\* does term t hold of value v of a column of the kind: the comparison its
\* operator names, under the order of the column's values, or "the display
\* text of v starts with the text of t.n" when it has no operator
TermHolds(kind, t, v) ==
    CASE t.op = LT -> KindLeq(kind, v, t.n) /\ v # t.n
      [] t.op = LE -> KindLeq(kind, v, t.n)
      [] t.op = GT -> KindLeq(kind, t.n, v) /\ v # t.n
      [] t.op = GE -> KindLeq(kind, t.n, v)
      [] OTHER -> StartsWith(Show(kind, v), Show(kind, t.n))

\* C12: for an unsigned-integer or date column, search_pattern holds of a
\* value v iff every comma-separated sub-pattern holds: <N iff v < N, <=N iff
\* v <= N, >N iff v > N, >=N iff v >= N (numerically, resp. chronologically),
\* and a sub-pattern without operator iff the display text starts with it;
\* ">500,<1000" matches v iff 500 < v < 1000.
C12_OperatorPatternIsAndOfComparisons ==
    (/\ last.op = "search_pattern"
     /\ last.kind \in {"U32", "Date"}
     /\ last.terms # <<>>
     /\ \A k \in 1..Len(last.terms) : last.terms[k].op \in Ops) =>
    /\ (last.op = "search_pattern" /\ last.kind = "U32") =>
           /\ last.result = (\A k \in 1..Len(last.terms) :
                                 TermHolds("U32", last.terms[k], last.value))
           /\ last.pattern = <<">", "5", "0", "0", ",", "<", "1", "0", "0", "0">> =>
                  last.result = (500 < last.value /\ last.value < 1000)
    /\ (last.op = "search_pattern" /\ last.kind = "Date") =>
           last.result = (\A k \in 1..Len(last.terms) :
                              TermHolds("Date", last.terms[k], last.value))

\* C12 witness: ">500,<1000" has matched 642, or a two-sided date pattern has
\* matched a day strictly between its operands
C12_Witness ==
    /\ last.op = "search_pattern"
    /\ last.result
    /\ \/ /\ last.kind = "U32"
          /\ last.pattern = <<">", "5", "0", "0", ",", "<", "1", "0", "0", "0">>
          /\ last.value = 642
       \/ /\ last.kind = "Date"
          /\ Len(last.terms) = 2
          /\ last.terms[1].op = GT /\ last.terms[2].op = LT
          /\ last.terms[1].n # last.value /\ last.terms[2].n # last.value

\* C13: for the integer and date column filters, the range pattern "A><B"
\* matches a value v iff A <= v <= B; "10><20" matches v iff 10 <= v <= 20.
C13_RangePatternIsInclusive ==
    (/\ last.op = "search_pattern"
     /\ last.kind \in {"U32", "I32", "Date"}
     /\ last.terms # <<>>
     /\ last.terms[1].op = RANGE) =>
        last.result = (/\ KindLeq(last.kind, last.terms[1].n, last.value)
                       /\ KindLeq(last.kind, last.value, last.terms[1].hi))

\* C14: for a signed-integer column, operator sub-patterns compare the target
\* as a signed integer: for every i32 value v, negative ones included, <N
\* holds iff v < N, <=N iff v <= N, >N iff v > N, >=N iff v >= N.
C14_SignedComparisons ==
    (/\ last.op = "search_pattern"
     /\ last.kind = "I32"
     /\ last.terms # <<>>
     /\ \A k \in 1..Len(last.terms) : last.terms[k].op \in Ops \ {<<>>}) =>
        last.result = (\A k \in 1..Len(last.terms) :
                           TermHolds("I32", last.terms[k], last.value))

\* C15: for a boolean column, which uses the default matcher, the search text
\* p matches a row iff the row's display text starts with p, where the menu is
\* filtered and where APPLY commits the search.
C15_DefaultMatcherIsPrefixOfDisplay ==
    \A c \in Cols :
        LET cf == column_filters[c]
            shown(i) == StartsWith(get_string_value(cf, backing_data[i]), cf.search_field)
        IN  (~panicked /\ cf.kind = "Bool" /\ cf.search_field # <<>>) =>
                /\ {get_value(cf, menu_rows(cf, backing_data)[k]) :
                        k \in 1..Len(menu_rows(cf, backing_data))}
                     = {get_value(cf, backing_data[i]) : i \in {j \in RowIdx : shown(j)}}
                /\ last = Ran("BindApply", c) =>
                       \A i \in RowIdx : evaluate(cf, backing_data[i]) <=> shown(i)

\* is the text s a numeral of the kind: a u32, an i32 (with an optional sign),
\* or a day of the calendar written in the column's format
IsOfKind(kind, s) ==
    CASE kind = "U32"  -> ParseU32(s).ok
      [] kind = "I32"  ->
            LET neg == s # <<>> /\ Head(s) = "-"
                ds == IF s # <<>> /\ Head(s) \in {"-", "+"} THEN Tail(s) ELSE s
            IN  /\ ds # <<>>
                /\ AllDigits(ds)
                /\ NumLeq(StripZeros(ds),
                          IF neg THEN <<"2", "1", "4", "7", "4", "8", "3", "6", "4", "8">>
                                 ELSE <<"2", "1", "4", "7", "4", "8", "3", "6", "4", "7">>)
      [] kind = "Date" -> ParseDate(s).ok

\* C16: search_pattern of every kind returns a boolean for every pattern and
\* every target, and a sub-pattern that begins with an operator and whose
\* operand or whose target fails to parse as the kind of the column is false,
\* so the whole pattern is false.
C16_MatcherIsTotalAndFailsClosed ==
    LET \* the operand of a sub-pattern that begins with an operator
        OperandOf(sub) ==
            IF StartsWith(sub, LE) \/ StartsWith(sub, GE) THEN SubSeq(sub, 3, Len(sub))
            ELSE SubSeq(sub, 2, Len(sub))
    IN  last.op = "search_pattern" =>
            /\ last.result \in BOOLEAN
            /\ (/\ last.kind \in {"U32", "I32", "Date"}
                /\ \E sub \in SubPatternsOf(last.pattern) :
                       /\ StartsWith(sub, LT) \/ StartsWith(sub, GT)
                       /\ \/ ~IsOfKind(last.kind, OperandOf(sub))
                          \/ ~IsOfKind(last.kind, last.target))
                   => ~last.result

\* C17: a lookup (is_active_for_id, bind_for_id) with an id that no column is
\* registered under fails fast: it aborts instead of returning a result or
\* silently doing nothing.
C17_UnknownIdFailsFast ==
    (/\ last.op \in {"is_active_for_id", "bind_for_id"}
     /\ \A k \in Cols : column_filters[k].id # last.id) => panicked

\* C18: in every table with at least one registered column the facet query of
\* every column completes without aborting and returns a vector as long as
\* the data (empty with empty data, with no achievable value), and with exactly
\* one registered column every row is reachable.
C18_FacetQueryCompletes ==
    /\ ~panicked
    /\ \A c \in Cols :
           LET r == selectable_value_bool_array(column_filters, backing_data, c)
           IN  /\ r.ok
               /\ Len(r.val) = Len(backing_data)
               /\ backing_data = <<>> =>
                      r.val = <<>> /\ visible_unique(column_filters[c], backing_data, r.val) = {}
               /\ Len(column_filters) = 1 => \A i \in RowIdx : r.val[i]

\* C20: in every state reached by registrations the ids of the registered
\* column filters are pairwise distinct, so that a lookup by id and the facet's
\* exclusion of the queried column each identify exactly one column, and a
\* registration appends: the order is the registration order.
C20_IdsAreDistinct ==
    /\ [](\A k \in Cols :
              /\ Cardinality({j \in Cols : column_filters[j].id = column_filters[k].id}) = 1
              /\ Len(SelectSeq(column_filters, LAMBDA cf : cf.id # column_filters[k].id))
                     = Len(column_filters) - 1)
    /\ [][\A cf \in ColumnSpecs :
              column_filter(cf, MaxCols) => column_filters' = Append(column_filters, cf)]_vars

\* the values column c lists in its menu, in the order of the entries
MenuValues(c) ==
    LET rows == menu_rows(column_filters[c], backing_data)
    IN  [k \in 1..Len(rows) |-> get_value(column_filters[c], rows[k])]

\* C19: the menu of a column lists exactly the distinct values borne by at
\* least one row whose display string matches the pending search text (every
\* distinct value when the text is empty), each once, in ascending order of
\* ScalarValue (numeric for integers, chronological for dates, not the order
\* of the display strings), and an entry is checked iff its value is not in
\* the exclusion set.
C19_MenuListsMatchingValuesInOrder ==
    \A c \in Cols :
        LET \* is a listed before b: numerically for integers (the mileage, the
            \* count of days since the epoch of a date), byte-wise for text,
            \* false before true
            ValueBefore(a, b) ==
                CASE a.tag = "Str"  -> StrLeq(a.val, b.val) /\ a.val # b.val
                  [] a.tag = "Bool" -> ~a.val /\ b.val
                  [] OTHER -> a.val < b.val
            cf == column_filters[c]
            rows == menu_rows(cf, backing_data)
            vals == MenuValues(c)
            matching == {i \in RowIdx :
                            \/ cf.search_field = <<>>
                            \/ search_pattern(cf, cf.search_field,
                                              get_string_value(cf, backing_data[i]))}
        IN  /\ {vals[k] : k \in 1..Len(vals)}
                  = {get_value(cf, backing_data[i]) : i \in matching}
            /\ \A k, l \in 1..Len(vals) : k < l => ValueBefore(vals[k], vals[l])
            /\ \A k \in 1..Len(vals) :
                   /\ checked(cf, rows[k]) <=> vals[k] \notin cf.unselected_values
                   /\ \E i \in matching : backing_data[i] = rows[k]

\* C19 witness: an open menu of a date column lists two days, the earlier one
\* first, although its row comes second and its display string is the greater
\* one, and one of the two entries is unchecked
C19_Witness ==
    /\ ~panicked
    /\ last.op = "BindCheckbox"
    /\ \E c \in Cols :
           /\ column_filters[c].kind = "Date"
           /\ Len(MenuValues(c)) = 2
           /\ get_value(column_filters[c], backing_data[1]) = MenuValues(c)[2]
           /\ get_string_value(column_filters[c], backing_data[1])
                  = <<"5", "/", "1", "1", "/", "2", "0", "1", "5">>
           /\ get_string_value(column_filters[c], backing_data[2])
                  = <<"5", "/", "9", "/", "2", "0", "1", "5">>
           /\ column_filters[c].unselected_values # {}

\* C21: commands are atomic with respect to reads: in a render pass (bind for
\* each column, then TableFilter.evaluate for each row) every read (is_active,
\* the facet query, the checked state of a menu entry, evaluate) observes, for each
\* column it reads, the exclusion set as it was before the latest command
\* (toggle, APPLY, NONE, ALL, RESET) or as the whole command leaves it, never
\* a partially applied set; and when the command's for_each returns, the
\* exclusion sets are those of the whole command.
C21_ReadsSeeWholeCommands ==
    /\ last.op \in {"PassIsActive", "PassFacet", "PassListEntry", "PassEvaluate"} =>
           \A j \in DOMAIN last.seen : last.seen[j] \in {last.before[j], last.after[j]}
    /\ last.op = "PassForEachReturn" => Sets(column_filters) = last.after

\* C21 witness: evaluate has just read the exclusion set of a column that a
\* command of this pass changed by two values, one element at a time
C21_Witness ==
    /\ last.op = "PassEvaluate"
    /\ last.cmd # ""
    /\ \E j \in DOMAIN last.seen :
           /\ last.seen[j] = last.after[j]
           /\ \E v, w \in (last.after[j] \ last.before[j]) \cup (last.before[j] \ last.after[j]) :
                  v # w

\* the exclusion set and the search text of every column, by position
FilterStates(cfs) ==
    [j \in 1..Len(cfs) |-> <<cfs[j].unselected_values, cfs[j].search_field>>]

\* C22: read operations are pure: is_active_for_id (is_active), the facet
\* query (selectable_value_bool_array, get_eval_bool_array), the checked state
\* of a menu entry that is not clicked (contains) and TableFilter.evaluate
\* (evaluate) leave the exclusion set and the search text of every column
\* unchanged.
C22_ReadsArePure ==
    [][(\/ PassIsActive
        \/ PassFacet
        \/ PassListEntry /\ ~(last.ev.kind = "click" /\ last.ev.k = last.idx)
        \/ PassEvaluate)
           => FilterStates(column_filters') = FilterStates(column_filters)]_vars

\* C22 witness: TableFilter.evaluate has just been computed for a row that a
\* column with a pending search text hides
C22_Witness ==
    /\ last.op = "PassEvaluate"
    /\ \E k \in Cols :
           /\ column_filters[k].search_field # <<>>
           /\ ~evaluate(column_filters[k], backing_data[last.idx - 1])

\* C23: no result is cached across mutations: whatever commands and host
\* changes of row fields came before, TableFilter.evaluate(row) returns
\* whether, for every column, the row's current value is outside the column's
\* current exclusion set, and a facet query that returns gives, for every row,
\* whether the current values of the row are outside the current exclusion
\* sets of the columns registered under another id.
C23_ReadsAreComputedFromCurrentState ==
    /\ last.op = "PassEvaluate" =>
           last.result =
               (\A k \in Cols :
                   get_value(column_filters[k], backing_data[last.idx - 1])
                       \notin column_filters[k].unselected_values)
    /\ (last.op = "PassFacet" /\ ~panicked) =>
           last.result =
               [i \in RowIdx |->
                   \A d \in Cols :
                       column_filters[d].id # column_filters[last.col].id =>
                           get_value(column_filters[d], backing_data[i])
                               \notin column_filters[d].unselected_values]

\* C23 witness: evaluate has just answered for a row whose field the host
\* changed in an earlier frame, in a pass in which a command changed an
\* exclusion set, and the answer is not the one the sets before the command
\* give
C23_Witness ==
    /\ last.op = "PassEvaluate"
    /\ backing_data[last.idx - 1].cancelled
    /\ last.before # last.after
    /\ last.result #
           (\A k \in Cols :
               get_value(column_filters[k], backing_data[last.idx - 1])
                   \notin last.before[k])

\* the search texts a user may type next in a column of a kind: those of the
\* runs, and one that matches what they do not
RetypedTexts(kind) ==
    SearchTexts(kind) \cup (CASE kind = "Str"  -> {<<"D">>}
                              [] kind = "U32"  -> {<<"2">>}
                              [] kind = "Bool" -> {<<"f">>}
                              [] kind = "Date" -> {<<"1", "2", "/">>})

\* C24: APPLY is a bulk re-derivation: while the host leaves the data set
\* alone, the exclusion set APPLY with a non-empty search text s leaves is the
\* one it would leave from any other exclusion set over the values of the
\* data; hence a second APPLY with the same text changes nothing, and an APPLY
\* with another text gives what that text gives from the empty set, values
\* excluded before included again.
C24_ApplyIsBulkRederivation ==
    [][\A self \in 1..MaxCols :
          (BindApply(self) /\ column_filters[self].search_field # <<>>) =>
              LET cf == column_filters[self]
                  after == column_filters'[self]
              IN  /\ \A S \in SUBSET ValuesIn(self) :
                         click_apply([cf EXCEPT !.unselected_values = S],
                                     backing_data).unselected_values
                             = after.unselected_values
                  /\ click_apply(after, backing_data) = after
                  /\ \A s \in RetypedTexts(cf.kind) :
                         click_apply([after EXCEPT !.search_field = s],
                                     backing_data).unselected_values
                             = click_apply([cf EXCEPT !.search_field = s,
                                                     !.unselected_values = {}],
                                           backing_data).unselected_values]_vars

\* C24 witness: APPLY has run with a search text in a column of two values,
\* it has left one excluded and one included, and another search text would
\* include the excluded one again
C24_Witness ==
    /\ last.op = "BindApply"
    /\ LET cf == column_filters[last.self]
       IN  /\ cf.search_field # <<>>
           /\ \E v, w \in ValuesIn(last.self) :
                  /\ v \in cf.unselected_values
                  /\ w \notin cf.unselected_values
                  /\ \E s \in RetypedTexts(cf.kind) :
                         v \notin click_apply([cf EXCEPT !.search_field = s],
                                              backing_data).unselected_values

\* C25: ColumnFilter.reset() on one column (one turn of the for_each of
\* TableFilter.reset) clears that column's search text and exclusion set and
\* leaves the search text and the exclusion set of every other column
\* unchanged.
C25_ColumnResetClearsOnlyItsColumn ==
    [][(PassForEach /\ last.cmd = "RESET") =>
          LET d == Head(last.rest)
          IN  /\ column_filters'[d].search_field = <<>>
              /\ column_filters'[d].unselected_values = {}
              /\ Len(column_filters') = Len(column_filters)
              /\ \A k \in Cols \ {d} :
                     FilterStates(column_filters')[k] = FilterStates(column_filters)[k]]_vars

\* C25 witness: reset() has run on the first of two columns, which had a
\* search text and excluded a value, and not yet on the second, which still
\* has a search text and excludes a value
C25_Witness ==
    /\ last.op = "PassForEach"
    /\ last.cmd = "RESET"
    /\ last.rest = <<2>>
    /\ last.before[1] # {}
    /\ column_filters[1].unselected_values = {}
    /\ column_filters[2].unselected_values # {}
    /\ column_filters[2].search_field # <<>>

\* C26: in the demo host's mileage matcher, the pattern <N matches the target
\* v iff v < N, the pattern >N matches iff v > N, and A><B matches iff
\* A <= v <= B.
C26_DemoMileageComparisonsAreStrict ==
    (last.op = "search_pattern" /\ last.kind = "DemoMileage") =>
        LET t == last.terms[1]
        IN  /\ ~panicked
            /\ t.op = LT => (last.result <=> last.value < t.n)
            /\ t.op = GT => (last.result <=> last.value > t.n)
            /\ t.op = RANGE => (last.result <=> (t.n <= last.value /\ last.value <= t.hi))

\* the achievable values of column c: visible_unique of its facet vector
Achievable(c) ==
    visible_unique(column_filters[c], backing_data,
                   selectable_value_bool_array(column_filters, backing_data, c).val)

\* C27: a click on the menu entry of a value outside the achievable values of
\* its column flips the value's membership like any other click; when a
\* column includes a value outside its achievable values and excludes every
\* achievable one, TableFilter.evaluate is false for every row; and after any
\* step other than a command in that column's menu, a row bearing a value the
\* column includes that every other column lets through is let through by
\* the table.
C27_UnachievableValuesAreToggleable ==
    /\ [](\A c \in Cols :
            (/\ BindOk(c)
             /\ Achievable(c) \subseteq column_filters[c].unselected_values
             /\ \E v \in ValuesIn(c) \ Achievable(c) :
                    v \notin column_filters[c].unselected_values)
                => \A i \in RowIdx : ~TableFilter_evaluate(column_filters, backing_data[i]))
    /\ [][\A self \in 1..MaxCols, k \in 1..MaxRows :
            BindCheckbox(self, k) =>
                LET cf == column_filters[self]
                    v == get_value(cf, menu_rows(cf, backing_data)[k])
                IN  v \notin Achievable(self) =>
                        (v \in column_filters'[self].unselected_values
                            <=> v \notin cf.unselected_values)]_vars
    /\ [][\A c \in Cols, i \in RowIdx :
            (/\ Len(column_filters') = Len(column_filters)
             /\ Len(backing_data') = Len(backing_data)
             /\ last'.self # c
             /\ get_value(column_filters[c], backing_data[i])
                    \notin column_filters[c].unselected_values
             /\ get_value(column_filters[c], backing_data'[i])
                    = get_value(column_filters[c], backing_data[i])
             /\ \A d \in Cols \ {c} : evaluate(column_filters'[d], backing_data'[i]))
                => TableFilter_evaluate(column_filters', backing_data'[i])]_vars

\* C27 witness: a checkbox has been clicked in the menu of a column that now
\* includes a value outside its achievable values and excludes its achievable
\* values, of which there is one, and the table hides every row
C27_Witness ==
    /\ last.op = "BindCheckbox"
    /\ LET c == last.self
       IN  /\ BindOk(c)
           /\ Achievable(c) # {}
           /\ Achievable(c) \subseteq column_filters[c].unselected_values
           /\ \E v \in ValuesIn(c) \ Achievable(c) :
                  v \notin column_filters[c].unselected_values
           /\ \A i \in RowIdx : ~TableFilter_evaluate(column_filters, backing_data[i])

\* C28: after ALL on a column, that column's exclusion set is empty and
\* is_active() is false, whatever toggles, APPLY, NONE and host changes of row
\* fields came before.
C28_AllLeavesColumnInactive ==
    last.op = "BindAll" =>
        /\ column_filters[last.self].unselected_values = {}
        /\ ~is_active(column_filters[last.self])

\* C29: menu and APPLY agree: after APPLY with a non-empty search text s, the
\* values of the data left outside the exclusion set are the values the menu
\* lists for s.
C29_MenuAndApplyAgree ==
    (last.op = "BindApply" /\ column_filters[last.self].search_field # <<>>) =>
        ValuesIn(last.self) \ column_filters[last.self].unselected_values
            = {MenuValues(last.self)[k] : k \in DOMAIN MenuValues(last.self)}

\* C30: as long as the host changes no field of a row, every value in a
\* column's exclusion set is the value get_value gives for at least one row of
\* the data, in every reachable state; hence a column that is active hides at
\* least one row.
C30_ExcludedValuesAreInTheData ==
    \A k \in Cols :
        /\ column_filters[k].unselected_values \subseteq ValuesIn(k)
        /\ is_active(column_filters[k]) =>
               \E i \in RowIdx : ~evaluate(column_filters[k], backing_data[i])

\* C30 witness: a column excludes one of the two values it has in the data,
\* and so hides one row and lets the other through
C30_Witness ==
    \E k \in Cols :
        /\ is_active(column_filters[k])
        /\ \E i, j \in RowIdx :
               /\ ~evaluate(column_filters[k], backing_data[i])
               /\ evaluate(column_filters[k], backing_data[j])

\* C31: an empty comma-separated sub-pattern is satisfied by every target: a
\* text pattern with an empty sub-pattern ("AB," or ",") matches the display
\* string of every row, so after APPLY with it the column excludes no value of
\* the data; in an integer or date pattern it is neutral, the pattern matches
\* exactly the rows its non-empty sub-patterns match (">500," those ">500"
\* matches), and every row when it has none.
C31_EmptySubPatternMatchesEverything ==
    \A c \in Cols :
        LET cf == column_filters[c]
            s == cf.search_field
            \* has the search text an empty comma-separated piece
            HasEmptyPiece == \E k \in 1..Len(Split(s, ",")) : Split(s, ",")[k] = <<>>
            \* the non-empty comma-separated pieces of the search text
            NonEmptyPieces == SelectSeq(Split(s, ","), LAMBDA piece : piece # <<>>)
        IN  (s # <<>> /\ HasEmptyPiece) =>
                /\ cf.kind = "Str" =>
                       /\ \A k \in 1..Len(MenuFlights) :
                              search_pattern(cf, s, get_string_value(cf, MenuFlights[k]))
                       /\ (last = Ran("BindApply", c)) =>
                              ValuesIn(c) \cap cf.unselected_values = {}
                /\ cf.kind \in {"U32", "Date"} =>
                       \A k \in 1..Len(MenuFlights) :
                           search_pattern(cf, s, get_string_value(cf, MenuFlights[k]))
                               = IF NonEmptyPieces = <<>> THEN TRUE
                                 ELSE search_pattern(cf, Join(NonEmptyPieces),
                                                     get_string_value(cf, MenuFlights[k]))

\* C31 witness: APPLY has run in a text column with the search text "AB,"
\* over data with a row whose text does not start with "AB", and the column
\* excludes nothing
C31_Witness ==
    /\ last.op = "BindApply"
    /\ LET cf == column_filters[last.self]
       IN  /\ cf.kind = "Str"
           /\ cf.search_field = <<"A", "B", ",">>
           /\ \E i \in RowIdx : ~StartsWith(get_string_value(cf, backing_data[i]), <<"A", "B">>)
           /\ cf.unselected_values = {}

\* C32: immediately after NONE on a column, that column's evaluate is false
\* for every row of the data, so TableFilter.evaluate is false for every row
\* of the data, and is_active() of the column is true iff the data is not
\* empty.
C32_NoneHidesEveryRow ==
    last.op = "BindNone" =>
        /\ \A i \in RowIdx :
               /\ ~evaluate(column_filters[last.self], backing_data[i])
               /\ ~TableFilter_evaluate(column_filters, backing_data[i])
        /\ is_active(column_filters[last.self]) <=> backing_data # <<>>

\* C32 witness: NONE has been clicked in the menu of a column that has two
\* values in the data and a search text that one of them does not match,
\* while every other column lets every row through
C32_Witness ==
    /\ last.op = "BindNone"
    /\ LET cf == column_filters[last.self]
       IN  /\ \E v, w \in ValuesIn(last.self) : v # w
           /\ cf.search_field # <<>>
           /\ \E i \in RowIdx :
                  ~search_pattern(cf, cf.search_field, get_string_value(cf, backing_data[i]))
           /\ \A d \in Cols \ {last.self}, i \in RowIdx :
                  evaluate(column_filters[d], backing_data[i])

\* C33: toggling the same value twice in succession on a column, with no
\* other command in between, restores that column's exclusion set exactly:
\* after a click on the entry of a value, the menu still lists the value at
\* the same place, and the click handler applied to that entry gives back the
\* exclusion set from before the first click.
C33_ToggleIsAnInvolution ==
    [][\A self \in 1..MaxCols, k \in 1..MaxRows :
          BindCheckbox(self, k) =>
              LET cf == column_filters[self]
                  once == column_filters'[self]
                  rows == menu_rows(cf, backing_data)
                  again == menu_rows(once, backing_data')
              IN  /\ again = rows
                  /\ once.unselected_values # cf.unselected_values
                  /\ click_checkbox(once, again[k]).unselected_values
                         = cf.unselected_values]_vars

\* C33 witness: a checkbox has been clicked in the menu of a column with a
\* search text, the value of a listed entry is now excluded, another value
\* is excluded as well, and the menu can be clicked again
C33_Witness ==
    /\ last.op = "BindCheckbox"
    /\ BindOk(last.self)
    /\ LET cf == column_filters[last.self]
           rows == menu_rows(cf, backing_data)
       IN  /\ cf.search_field # <<>>
           /\ \E k \in 1..Len(rows) : get_value(cf, rows[k]) \in cf.unselected_values
           /\ \E v, w \in cf.unselected_values : v # w

\* C34: when the columns are registered before filtering starts, no sequence
\* of TableFilter.evaluate, is_active_for_id, reset and bind_for_id calls,
\* with any single input event handled inside bind (RESET calling
\* TableFilter.reset from inside bind included), requests a borrow of
\* column_filters, unselected_values or search_field that the live borrows of
\* the cell do not allow.
C34_NoBorrowConflict ==
    last.op \in {"evaluate", "is_active_for_id", "reset", "bind_for_id"} => ~last.conflict

\* C34 witness: RESET has been clicked in the open popup of one of two
\* columns, TableFilter.reset has run inside bind_for_id, and the table is
\* reset
C34_Witness ==
    /\ last.op = "bind_for_id"
    /\ last.ev = "RESET"
    /\ ~panicked
    /\ Len(column_filters) = 2
    /\ backing_data # <<>>
    /\ \A k \in Cols : ~is_active(column_filters[k])

====
